---- MODULE Spec2Model ----
(***************************************************************************)
(* The multi-model AI core of sarma/backend/app/services/ai: the provider  *)
(* adapters (GeminiService, OpenAIVisionService), the response parsers and *)
(* the capability services (MealAnalyzer, RecipeGenerator, ChatAssistant). *)
(*                                                                         *)
(* Conventions                                                             *)
(*   - a response text is a sequence of lexical tokens (Token below); the  *)
(*     regular expressions and json.loads of the source work on it;        *)
(*   - confidences are in hundredths (0.8 is 80), so that every comparison *)
(*     with CONFIDENCE_THRESHOLD is exact;                                 *)
(*   - costs are in nano-USD (1e-9 USD), so that the per-token prices are  *)
(*     integers;                                                           *)
(*   - Python's None is the string "None" for names and <<>> for an        *)
(*     Optional number (<<v>> when present).                               *)
(***************************************************************************)
EXTENDS Integers, Sequences, FiniteSets, TLC

(***************************************************************************)
(* Response text                                                           *)
(***************************************************************************)

\* A token: a bare word, a number, a JSON string literal, a punctuation
\* mark, or an opaque run of n characters of prose ("prose") that holds no
\* keyword, digit, brace or uncertainty phrase.
W(s)     == [k |-> "word",  s |-> s,  n |-> 0]
Num(n)   == [k |-> "num",   s |-> "", n |-> n]
Str(s)   == [k |-> "str",   s |-> s,  n |-> 0]
Prose(n) == [k |-> "prose", s |-> "", n |-> n]
LBRACE   == [k |-> "{", s |-> "", n |-> 0]
RBRACE   == [k |-> "}", s |-> "", n |-> 0]
LBRACKET == [k |-> "[", s |-> "", n |-> 0]
RBRACKET == [k |-> "]", s |-> "", n |-> 0]
COLON    == [k |-> ":", s |-> "", n |-> 0]
COMMA    == [k |-> ",", s |-> "", n |-> 0]
SEMI     == [k |-> ";", s |-> "", n |-> 0]

\* Number of decimal digits of a natural number.
RECURSIVE Digits(_)
Digits(n) == IF n < 10 THEN 1 ELSE 1 + Digits(n \div 10)

\* Characters of one token as written in the text.
TokChars(t) ==
    CASE t.k = "word"  -> Len(t.s)
      [] t.k = "str"   -> Len(t.s) + 2
      [] t.k = "num"   -> Digits(t.n)
      [] t.k = "prose" -> t.n
      [] OTHER         -> 1

\* len(response): the tokens and one separating blank between two tokens.
RECURSIVE CharLenFrom(_, _)
CharLenFrom(text, i) ==
    IF i > Len(text) THEN 0
    ELSE TokChars(text[i])
         + (IF i < Len(text) THEN 1 ELSE 0) + CharLenFrom(text, i + 1)
CharLen(text) == CharLenFrom(text, 1)

\* str.lower() on the words the model writes with a capital.
Lower(s) ==
    CASE s = "Possibly" -> "possibly"
      [] s = "Probably" -> "probably"
      [] s = "Unclear"  -> "unclear"
      [] s = "Calories" -> "calories"
      [] s = "Protein"  -> "protein"
      [] OTHER          -> s

\* A token as a lower-cased word; every token that is no word is a break.
LowerWord(t) == IF t.k = "word" THEN Lower(t.s) ELSE ""

\* `phrase in lower_response` for a phrase given as a sequence of words.
PhraseIn(phrase, text) ==
    \E i \in 1..Len(text) :
        /\ i + Len(phrase) - 1 <= Len(text)
        /\ \A j \in 1..Len(phrase) : LowerWord(text[i + j - 1]) = phrase[j]

(***************************************************************************)
(* BaseAIService.assess_confidence (base.py)                               *)
(***************************************************************************)

BASE_CONFIDENCE == 80
PHRASE_PENALTY == 10
DETAIL_BONUS == 5
DETAIL_LENGTH == 200

uncertainty_phrases ==
    << <<"might", "be">>, <<"could", "be">>, <<"possibly">>, <<"probably">>,
       <<"not", "sure">>, <<"unclear">>, <<"difficult", "to", "tell">> >>

\* LET x == e IN Op(x), with e evaluated once, before Op is applied.
With(e, Op(_)) == CHOOSE y \in {Op(x) : x \in {e}} : TRUE

Max(a, b) == IF a >= b THEN a ELSE b
Min(a, b) == IF a <= b THEN a ELSE b

\* max(0.0, min(1.0, confidence))
Clamp(c) == Max(0, Min(100, c))

\* Variant for C23: the length of the response earns nothing.
assess_confidence_NoBonus(response) ==
    LET hits == Cardinality({i \in 1..Len(uncertainty_phrases) :
                                PhraseIn(uncertainty_phrases[i], response)})
    IN  Clamp(BASE_CONFIDENCE - PHRASE_PENALTY * hits)

\* One penalty for each phrase of the list that occurs in the lower-cased
\* response, a bonus when the response is longer than 200 characters.
assess_confidence(response) ==
    LET hits == Cardinality({i \in 1..Len(uncertainty_phrases) :
                                PhraseIn(uncertainty_phrases[i], response)})
        bonus == IF CharLen(response) > DETAIL_LENGTH THEN DETAIL_BONUS ELSE 0
    IN  Clamp(BASE_CONFIDENCE - PHRASE_PENALTY * hits + bonus)

(***************************************************************************)
(* JSON values and json.loads                                              *)
(***************************************************************************)

\* A JSON value: t is its type, n a number (or 1/0 for true/false), s a
\* string, m the members of an object or the elements of a list (each a
\* [key, val], the key of a list element being "").
JNum(n)  == [t |-> "num",  n |-> n, s |-> "", m |-> <<>>]
JStr(s)  == [t |-> "str",  n |-> 0, s |-> s,  m |-> <<>>]
JNull    == [t |-> "null", n |-> 0, s |-> "", m |-> <<>>]
JBool(b) == [t |-> "bool", n |-> IF b THEN 1 ELSE 0, s |-> "", m |-> <<>>]
JList(e) == [t |-> "list", n |-> 0, s |-> "",
             m |-> [i \in 1..Len(e) |-> [key |-> "", val |-> e[i]]]]
JObj(m)  == [t |-> "obj",  n |-> 0, s |-> "", m |-> m]
KV(k, v) == [key |-> k, val |-> v]

ParseFail == [ok |-> FALSE, v |-> JNull, next |-> 0]
ParseOk(v, next) == [ok |-> TRUE, v |-> v, next |-> next]

\* The recursive-descent decoder of json.loads on tokens: ParseValue reads
\* one value starting at token i and says where it ends.
RECURSIVE ParseValue(_, _)
RECURSIVE ParseMembers(_, _, _)
RECURSIVE ParseElements(_, _, _)

ParseValue(toks, i) ==
    IF i > Len(toks) THEN ParseFail
    ELSE LET t == toks[i] IN
         CASE t.k = "num" -> ParseOk(JNum(t.n), i + 1)
           [] t.k = "str" -> ParseOk(JStr(t.s), i + 1)
           [] t.k = "word" ->
                CASE t.s = "null"  -> ParseOk(JNull, i + 1)
                  [] t.s = "true"  -> ParseOk(JBool(TRUE), i + 1)
                  [] t.s = "false" -> ParseOk(JBool(FALSE), i + 1)
                  [] OTHER         -> ParseFail
           [] t.k = "{" ->
                IF i + 1 <= Len(toks) /\ toks[i + 1].k = "}"
                THEN ParseOk(JObj(<<>>), i + 2)
                ELSE ParseMembers(toks, i + 1, <<>>)
           [] t.k = "[" ->
                IF i + 1 <= Len(toks) /\ toks[i + 1].k = "]"
                THEN ParseOk(JList(<<>>), i + 2)
                ELSE ParseElements(toks, i + 1, <<>>)
           [] OTHER -> ParseFail

ParseMembers(toks, i, acc) ==
    IF i + 2 > Len(toks) \/ toks[i].k # "str" \/ toks[i + 1].k # ":"
    THEN ParseFail
    ELSE LET Rest(r) ==
                 IF ~r.ok \/ r.next > Len(toks) THEN ParseFail
                 ELSE LET acc2 == Append(acc, KV(toks[i].s, r.v)) IN
                      CASE toks[r.next].k = "}" ->
                                ParseOk(JObj(acc2), r.next + 1)
                        [] toks[r.next].k = "," ->
                                ParseMembers(toks, r.next + 1, acc2)
                        [] OTHER -> ParseFail
         IN  With(ParseValue(toks, i + 2), Rest)

ParseElements(toks, i, acc) ==
    LET Rest(r) ==
            IF ~r.ok \/ r.next > Len(toks) THEN ParseFail
            ELSE LET acc2 == Append(acc, r.v) IN
                 CASE toks[r.next].k = "]" -> ParseOk(JList(acc2), r.next + 1)
                   [] toks[r.next].k = "," ->
                           ParseElements(toks, r.next + 1, acc2)
                   [] OTHER -> ParseFail
    IN  With(ParseValue(toks, i), Rest)

\* json.loads(text): one value and nothing after it, else JSONDecodeError
\* (ok = FALSE).
json_loads(toks) ==
    LET Whole(r) ==
            IF r.ok /\ r.next = Len(toks) + 1
            THEN [ok |-> TRUE, v |-> r.v] ELSE [ok |-> FALSE, v |-> JNull]
    IN  With(ParseValue(toks, 1), Whole)

\* json.dumps: the tokens of a value (used to write the sample responses).
RECURSIVE json_dumps(_)
RECURSIVE DumpMembers(_, _)
DumpMembers(m, isObj) ==
    IF m = <<>> THEN <<>>
    ELSE (IF isObj THEN <<Str(m[1].key), COLON>> ELSE <<>>)
         \o json_dumps(m[1].val)
         \o (IF Len(m) > 1 THEN <<COMMA>> ELSE <<>>)
         \o DumpMembers(Tail(m), isObj)
json_dumps(v) ==
    CASE v.t = "num"  -> <<Num(v.n)>>
      [] v.t = "str"  -> <<Str(v.s)>>
      [] v.t = "null" -> <<W("null")>>
      [] v.t = "bool" -> <<W(IF v.n = 1 THEN "true" ELSE "false")>>
      [] v.t = "obj"  -> <<LBRACE>> \o DumpMembers(v.m, TRUE) \o <<RBRACE>>
      [] v.t = "list" -> <<LBRACKET>> \o DumpMembers(v.m, FALSE) \o <<RBRACKET>>

\* re.search(r'\{.*\}', text, re.DOTALL): greedy, from the first "{" that
\* has a "}" after it to the last "}".
BraceMatch(text) ==
    LET opens  == {i \in 1..Len(text) : text[i].k = "{"}
        closes == {j \in 1..Len(text) : text[j].k = "}"}
        ok     == {i \in opens : \E j \in closes : j > i}
    IN  IF ok = {} THEN [found |-> FALSE, group |-> <<>>]
        ELSE LET i == CHOOSE a \in ok : \A b \in ok : a <= b
                 j == CHOOSE a \in closes : \A b \in closes : a >= b
             IN  [found |-> TRUE, group |-> SubSeq(text, i, j)]

\* The first lines of both parsers' try blocks: json.loads of the greedy
\* brace match when there is one, else of the whole response.
LoadJson(ai_response) ==
    LET Load(json_match) ==
            IF json_match.found THEN json_loads(json_match.group)
            ELSE json_loads(ai_response)
    IN  With(BraceMatch(ai_response), Load)

\* dict.get(key, default); a key given twice keeps its last value.
HasKey(obj, key) == \E i \in 1..Len(obj.m) : obj.m[i].key = key
Get(obj, key, default) ==
    IF HasKey(obj, key)
    THEN LET S == {i \in 1..Len(obj.m) : obj.m[i].key = key}
             i == CHOOSE a \in S : \A b \in S : a >= b
         IN  obj.m[i].val
    ELSE default

\* bool(v)
Truthy(v) ==
    CASE v.t = "num"  -> v.n # 0
      [] v.t = "str"  -> v.s # ""
      [] v.t = "bool" -> v.n = 1
      [] v.t = "null" -> FALSE
      [] OTHER        -> v.m # <<>>

\* The strings float() and int() accept, with their values.
NumericStr == ("450" :> 450) @@ ("30" :> 30) @@ ("0" :> 0)

\* float(v): a number for a number, a bool or a numeric string; ValueError
\* for any other string; TypeError for None, a list or a dict.
FloatOf(v) ==
    CASE v.t = "num"  -> [exc |-> "none", val |-> v.n]
      [] v.t = "bool" -> [exc |-> "none", val |-> v.n]
      [] v.t = "str"  -> IF v.s \in DOMAIN NumericStr
                         THEN [exc |-> "none", val |-> NumericStr[v.s]]
                         ELSE [exc |-> "ValueError", val |-> 0]
      [] OTHER        -> [exc |-> "TypeError", val |-> 0]

(***************************************************************************)
(* MealAnalyzer._parse_nutrition and _parse_natural_language               *)
(***************************************************************************)

\* What a Python call does: it returns a value or raises an exception.
Returned(v) == [exc |-> "none", val |-> v]
Raised(e)   == [exc |-> e, val |-> <<>>]

PARSED_CONFIDENCE == 80
FALLBACK_CONFIDENCE == 60
FallbackNote == "Parsed from natural language response (fallback mode)"

\* The words each pattern of _parse_natural_language accepts as its keyword:
\* calories?, protein, carb(?:ohydrate)?s?, fat, fiber, ingredients?.
KwCalories    == {"calorie", "calories"}
KwProtein     == {"protein"}
KwCarbs       == {"carb", "carbs", "carbohydrate", "carbohydrates"}
KwFat         == {"fat"}
KwFiber       == {"fiber"}
KwIngredients == {"ingredient", "ingredients"}

\* Where the pattern  keyword:?\s*(\d+\.?\d*)  matches with its keyword at
\* token i: the number follows the keyword, or follows a colon after it.
\* A keyword inside a JSON string literal is followed by the closing quote
\* and matches nothing.
NumberAfter(text, i) ==
    IF i + 1 <= Len(text) /\ text[i + 1].k = "num" THEN <<text[i + 1].n>>
    ELSE IF i + 2 <= Len(text) /\ text[i + 1].k = ":" /\ text[i + 2].k = "num"
         THEN <<text[i + 2].n>>
         ELSE <<>>

\* extract_number(pattern, default = 0.0): the leftmost match of the
\* pattern (re.search with re.IGNORECASE).
extract_number(kw, text) ==
    LET hits == {i \in 1..Len(text) :
                    /\ text[i].k = "word"
                    /\ Lower(text[i].s) \in kw
                    /\ NumberAfter(text, i) # <<>>}
    IN  IF hits = {} THEN 0
        ELSE LET i == CHOOSE a \in hits : \A b \in hits : a <= b
             IN  NumberAfter(text, i)[1]

\* re.split(r'[,;]', s) with the empty pieces dropped.
RECURSIVE SplitItems(_, _)
SplitItems(toks, cur) ==
    IF toks = <<>> THEN (IF cur = <<>> THEN <<>> ELSE <<cur>>)
    ELSE IF Head(toks).k \in {",", ";"}
         THEN (IF cur = <<>> THEN <<>> ELSE <<cur>>) \o SplitItems(Tail(toks), <<>>)
         ELSE SplitItems(Tail(toks), Append(cur, Head(toks)))

\* re.search(r'ingredients?:?\s*([^\n]+)'): all that follows the leftmost
\* keyword with something after it, without the colon that follows a bare
\* keyword when more text comes after that colon. Each ingredient is the
\* token sequence between two separators.
extract_ingredients(text) ==
    LET hits == {i \in 1..Len(text) :
                    /\ text[i].k \in {"word", "str"}
                    /\ Lower(text[i].s) \in KwIngredients
                    /\ i + 1 <= Len(text)}
    IN  IF hits = {} THEN <<>>
        ELSE LET i == CHOOSE a \in hits : \A b \in hits : a <= b
                 from == IF /\ text[i].k = "word"
                            /\ text[i + 1].k = ":"
                            /\ i + 2 <= Len(text)
                         THEN i + 2 ELSE i + 1
             IN  SplitItems(SubSeq(text, from, Len(text)), <<>>)

\* _parse_natural_language: never raises (the pattern only captures digits,
\* so float() always succeeds).
_parse_natural_language(text) ==
    LET fiber == extract_number(KwFiber, text) IN
    [calories    |-> extract_number(KwCalories, text),
     protein_g   |-> extract_number(KwProtein, text),
     carbs_g     |-> extract_number(KwCarbs, text),
     fat_g       |-> extract_number(KwFat, text),
     fiber_g     |-> IF fiber > 0 THEN <<fiber>> ELSE <<>>,
     sugar_g     |-> <<>>,
     sodium_mg   |-> <<>>,
     ingredients |-> extract_ingredients(text),
     portions    |-> JNull,
     meal_type   |-> "None",
     confidence  |-> FALLBACK_CONFIDENCE,
     notes       |-> FallbackNote]

\* float(nutrition_raw.get(k, 0))
RequiredFloat(raw, k) == FloatOf(Get(raw, k, JNum(0)))

\* float(nutrition_raw.get(k, 0)) if nutrition_raw.get(k) else None
OptionalFloat(raw, k) ==
    IF Truthy(Get(raw, k, JNull))
    THEN LET f == FloatOf(Get(raw, k, JNum(0))) IN
         [exc |-> f.exc, val |-> <<f.val>>]
    ELSE [exc |-> "none", val |-> <<>>]

\* The exception of the first call, in evaluation order, that raises.
RECURSIVE FirstExc(_)
FirstExc(rs) ==
    IF rs = <<>> THEN "none"
    ELSE IF Head(rs).exc # "none" THEN Head(rs).exc ELSE FirstExc(Tail(rs))

\* pydantic's validation of the NutritionData fields that are passed as the
\* model wrote them: ingredients List[str], portions Optional[Dict[str,
\* str]], meal_type Optional[str], notes Optional[str].
IsStrList(v)    == v.t = "list" /\ \A i \in 1..Len(v.m) : v.m[i].val.t = "str"
IsStrDict(v)    == v.t = "obj" /\ \A i \in 1..Len(v.m) : v.m[i].val.t = "str"
IsOptionalStr(v) == v.t \in {"str", "null"}
NutritionValid(data) ==
    /\ IsStrList(Get(data, "ingredients", JList(<<>>)))
    /\ LET p == Get(data, "portions", JObj(<<>>)) IN p.t = "null" \/ IsStrDict(p)
    /\ IsOptionalStr(Get(data, "meal_type", JNull))
    /\ IsOptionalStr(Get(data, "confidence_notes", JStr("")))

OptStr(v) == IF v.t = "str" THEN v.s ELSE "None"

\* data.get('ingredients', []) as NutritionData keeps it: each ingredient
\* a text of its own.
Ingredients(l) == [i \in 1..Len(l.m) |-> <<W(l.m[i].val.s)>>]

\* The exceptions the except clause of _parse_nutrition names:
\* json.JSONDecodeError, KeyError, ValueError (pydantic's ValidationError
\* is a ValueError).
ParseNutritionCaught == {"JSONDecodeError", "KeyError", "ValueError"}

\* The try block of _parse_nutrition: the record it builds, or the
\* exception raised on the way.
ParseNutritionTry(ai_response) ==
    LET Build(data, f) ==
            IF FirstExc(f) # "none" THEN Raised(FirstExc(f))
            ELSE IF ~NutritionValid(data) THEN Raised("ValueError")
            ELSE Returned(
                [calories    |-> f[1].val,
                 protein_g   |-> f[2].val,
                 carbs_g     |-> f[3].val,
                 fat_g       |-> f[4].val,
                 fiber_g     |-> f[5].val,
                 sugar_g     |-> f[6].val,
                 sodium_mg   |-> f[7].val,
                 ingredients |-> Ingredients(Get(data, "ingredients", JList(<<>>))),
                 portions    |-> Get(data, "portions", JObj(<<>>)),
                 meal_type   |-> OptStr(Get(data, "meal_type", JNull)),
                 confidence  |-> PARSED_CONFIDENCE,
                 notes       |-> OptStr(Get(data, "confidence_notes", JStr("")))])
        FromRaw(data, nutrition_raw) ==
            LET Rest(f) == Build(data, f) IN
            IF nutrition_raw.t # "obj" THEN Raised("AttributeError")
            ELSE With(<<RequiredFloat(nutrition_raw, "calories"),
                        RequiredFloat(nutrition_raw, "protein_g"),
                        RequiredFloat(nutrition_raw, "carbs_g"),
                        RequiredFloat(nutrition_raw, "fat_g"),
                        OptionalFloat(nutrition_raw, "fiber_g"),
                        OptionalFloat(nutrition_raw, "sugar_g"),
                        OptionalFloat(nutrition_raw, "sodium_mg")>>, Rest)
        FromLoaded(loaded) ==
            LET Rest(nutrition_raw) == FromRaw(loaded.v, nutrition_raw) IN
            IF ~loaded.ok THEN Raised("JSONDecodeError")
            ELSE IF loaded.v.t # "obj" THEN Raised("AttributeError")
            ELSE With(Get(loaded.v, "nutrition", JObj(<<>>)), Rest)
    IN  With(LoadJson(ai_response), FromLoaded)

\* _parse_nutrition: the try block, with the natural-language fallback for
\* the exceptions the except clause names; any other exception propagates.
_parse_nutrition(ai_response) ==
    LET Except(r) ==
            IF r.exc \in ParseNutritionCaught
            THEN Returned(_parse_natural_language(ai_response))
            ELSE r
    IN  With(ParseNutritionTry(ai_response), Except)

(***************************************************************************)
(* Provider adapters: GeminiService and OpenAIVisionService                *)
(***************************************************************************)

GEMINI_FLASH  == "gemini-flash"
GPT4_VISION   == "gpt4-vision"
CLAUDE_VISION == "claude-vision"
AIProvider    == {GEMINI_FLASH, GPT4_VISION, CLAUDE_VISION}

GeminiModel == "gemini-2.0-flash-exp"
OpenAIModel == "gpt-4o"

\* Prices in nano-USD: per token (the per-1M prices divided by 1e6) and per
\* image (Gemini: IMAGE_COST_PER_1K / 1000; OpenAI: IMAGE_COST_BASE).
GEMINI_INPUT_COST  == 75
GEMINI_OUTPUT_COST == 300
GEMINI_IMAGE_COST  == 2500
OPENAI_INPUT_COST  == 5000
OPENAI_OUTPUT_COST == 15000
OPENAI_IMAGE_COST  == 12750000

\* "Higher confidence for GPT-4 by default": + 0.05
GPT4_CONFIDENCE_BONUS == 5

Gemini_calculate_cost(input_tokens, output_tokens) ==
    input_tokens * GEMINI_INPUT_COST + output_tokens * GEMINI_OUTPUT_COST

OpenAI_calculate_cost(input_tokens, output_tokens) ==
    input_tokens * OPENAI_INPUT_COST + output_tokens * OPENAI_OUTPUT_COST

\* What the provider and its SDK do during one call (the adapter's input
\* from outside): fail is the step at which an exception is raised ("none"
\* when the call succeeds), error its message; text is the response text;
\* has_usage says whether the Gemini response carries usage_metadata; the
\* token counts are the provider's usage report; ms is the elapsed time.
\* Every failure is an Exception (a timeout, a connection or API error, a
\* blocked or malformed response).
NoFailure == "none"

\* AIResponse (timestamp and metadata, which nothing reads, are left out).
Envelope(provider, model, content, confidence, tokens, cost, ms, error) ==
    [provider |-> provider, model |-> model, content |-> content,
     confidence |-> confidence, tokens_used |-> tokens, cost_usd |-> cost,
     response_time_ms |-> ms, error |-> error]

\* Variant for C12: a failed call marks tokens and cost as unknown.
ErrorEnvelope_Sentinel(provider, model, o) ==
    Envelope(provider, model, <<>>, 0, 0 - 1, 0 - 1, o.ms, o.error)

\* The AIResponse every except clause of the adapters builds.
ErrorEnvelope(provider, model, o) ==
    Envelope(provider, model, <<>>, 0, 0, 0, o.ms, o.error)

\* The steps of each adapter method that can raise, and the steps its
\* try block covers (all of them, in every method).
GeminiImageSteps == {"prepare_image", "generate_content", "read_response"}
GeminiTextSteps  == {"generate_content", "read_response"}
GeminiChatSteps  == {"send_message", "read_response"}
OpenAISteps      == {"create", "read_response", "assess_confidence"}

\* Variant for C8: the image download left outside the try block.
GeminiImageTry_DownloadOutside == {"generate_content", "read_response"}

GeminiImageTry == {"prepare_image", "generate_content", "read_response"}
GeminiTextTry  == {"generate_content", "read_response"}
GeminiChatTry  == {"send_message", "read_response"}
OpenAIImageTry == {"create", "read_response", "assess_confidence"}
OpenAITextTry  == {"create", "read_response", "assess_confidence"}
OpenAIChatTry  == {"create", "read_response", "assess_confidence"}

\* try: ... return ok   except Exception as e: return err
TryExcept(o, covered, ok, err) ==
    IF o.fail = NoFailure THEN Returned(ok)
    ELSE IF o.fail \in covered THEN Returned(err)
    ELSE Raised(o.error)

\* Gemini's token counts: usage_metadata when the response has it, else a
\* quarter of the character counts.
GeminiInputTokens(o, prompt_chars) ==
    IF o.has_usage THEN o.prompt_tokens ELSE prompt_chars \div 4
GeminiOutputTokens(o) ==
    IF o.has_usage THEN o.completion_tokens ELSE CharLen(o.text) \div 4

Gemini_analyze_image(prompt_chars, o) ==
    LET input_tokens  == GeminiInputTokens(o, prompt_chars)
        output_tokens == GeminiOutputTokens(o)
    IN  TryExcept(o, GeminiImageTry,
            Envelope(GEMINI_FLASH, GeminiModel, o.text,
                     assess_confidence(o.text),
                     input_tokens + output_tokens,
                     Gemini_calculate_cost(input_tokens, output_tokens)
                         + GEMINI_IMAGE_COST,
                     o.ms, "None"),
            ErrorEnvelope(GEMINI_FLASH, GeminiModel, o))

Gemini_generate_text(prompt_chars, o) ==
    LET input_tokens  == GeminiInputTokens(o, prompt_chars)
        output_tokens == GeminiOutputTokens(o)
    IN  TryExcept(o, GeminiTextTry,
            Envelope(GEMINI_FLASH, GeminiModel, o.text,
                     assess_confidence(o.text),
                     input_tokens + output_tokens,
                     Gemini_calculate_cost(input_tokens, output_tokens),
                     o.ms, "None"),
            ErrorEnvelope(GEMINI_FLASH, GeminiModel, o))

\* chat always approximates its tokens from the character counts.
Gemini_chat(prompt_chars, o) ==
    LET input_tokens  == prompt_chars \div 4
        output_tokens == CharLen(o.text) \div 4
    IN  TryExcept(o, GeminiChatTry,
            Envelope(GEMINI_FLASH, GeminiModel, o.text,
                     assess_confidence(o.text),
                     input_tokens + output_tokens,
                     Gemini_calculate_cost(input_tokens, output_tokens),
                     o.ms, "None"),
            ErrorEnvelope(GEMINI_FLASH, GeminiModel, o))

OpenAI_analyze_image(prompt_chars, o) ==
    TryExcept(o, OpenAIImageTry,
        Envelope(GPT4_VISION, OpenAIModel, o.text,
                 Min(100, assess_confidence(o.text) + GPT4_CONFIDENCE_BONUS),
                 o.total_tokens,
                 OpenAI_calculate_cost(o.prompt_tokens, o.completion_tokens)
                     + OPENAI_IMAGE_COST,
                 o.ms, "None"),
        ErrorEnvelope(GPT4_VISION, OpenAIModel, o))

OpenAI_generate_text(prompt_chars, o) ==
    TryExcept(o, OpenAITextTry,
        Envelope(GPT4_VISION, OpenAIModel, o.text,
                 assess_confidence(o.text) + GPT4_CONFIDENCE_BONUS,
                 o.total_tokens,
                 OpenAI_calculate_cost(o.prompt_tokens, o.completion_tokens),
                 o.ms, "None"),
        ErrorEnvelope(GPT4_VISION, OpenAIModel, o))

\* Variant for C13: chat reports the shared assessment as it is.
OpenAI_chat_NoBonus(prompt_chars, o) ==
    TryExcept(o, OpenAIChatTry,
        Envelope(GPT4_VISION, OpenAIModel, o.text,
                 assess_confidence(o.text),
                 o.total_tokens,
                 OpenAI_calculate_cost(o.prompt_tokens, o.completion_tokens),
                 o.ms, "None"),
        ErrorEnvelope(GPT4_VISION, OpenAIModel, o))

OpenAI_chat(prompt_chars, o) ==
    TryExcept(o, OpenAIChatTry,
        Envelope(GPT4_VISION, OpenAIModel, o.text,
                 assess_confidence(o.text) + GPT4_CONFIDENCE_BONUS,
                 o.total_tokens,
                 OpenAI_calculate_cost(o.prompt_tokens, o.completion_tokens),
                 o.ms, "None"),
        ErrorEnvelope(GPT4_VISION, OpenAIModel, o))

\* The steps at which a call of this method of this adapter can fail.
AdapterSteps(provider, method) ==
    IF provider = GPT4_VISION THEN OpenAISteps
    ELSE CASE method = "analyze_image" -> GeminiImageSteps
           [] method = "generate_text" -> GeminiTextSteps
           [] method = "chat"          -> GeminiChatSteps

\* self.gemini.<method>(...) and self.gpt4.<method>(...)
AdapterCall(provider, method, prompt_chars, o) ==
    IF provider = GPT4_VISION
    THEN CASE method = "analyze_image" -> OpenAI_analyze_image(prompt_chars, o)
           [] method = "generate_text" -> OpenAI_generate_text(prompt_chars, o)
           [] method = "chat"          -> OpenAI_chat(prompt_chars, o)
    ELSE CASE method = "analyze_image" -> Gemini_analyze_image(prompt_chars, o)
           [] method = "generate_text" -> Gemini_generate_text(prompt_chars, o)
           [] method = "chat"          -> Gemini_chat(prompt_chars, o)

(***************************************************************************)
(* RecipeGenerator._parse_recipe                                           *)
(***************************************************************************)

\* NutritionData built with the four macros only: every other field keeps
\* its default (confidence 0.8).
DefaultNutrition(cal, pro, car, fat, fib, sug, sod) ==
    [calories |-> cal, protein_g |-> pro, carbs_g |-> car, fat_g |-> fat,
     fiber_g |-> fib, sugar_g |-> sug, sodium_mg |-> sod,
     ingredients |-> <<>>, portions |-> JNull, meal_type |-> "None",
     confidence |-> PARSED_CONFIDENCE, notes |-> "None"]

\* int(data.get(k, default)): as float() on the values of the model.
IntOf(v) == FloatOf(v)

\* pydantic's validation of the RecipeData fields passed as the model wrote
\* them: name, description, difficulty str; ingredients, instructions, tags
\* and dietary_info List[str]; cuisine Optional[str].
RecipeValid(data) ==
    /\ Get(data, "name", JStr("Untitled Recipe")).t = "str"
    /\ Get(data, "description", JStr("")).t = "str"
    /\ IsStrList(Get(data, "ingredients", JList(<<>>)))
    /\ IsStrList(Get(data, "instructions", JList(<<>>)))
    /\ Get(data, "difficulty", JStr("medium")).t = "str"
    /\ IsStrList(Get(data, "tags", JList(<<>>)))
    /\ IsOptionalStr(Get(data, "cuisine", JNull))
    /\ IsStrList(Get(data, "dietary_info", JList(<<>>)))

StrList(v) == [i \in 1..Len(v.m) |-> v.m[i].val.s]

\* The try block of _parse_recipe.
ParseRecipeTry(ai_response) ==
    LET Build(data, f) ==
            IF FirstExc(f) # "none" THEN Raised(FirstExc(f))
            ELSE IF ~RecipeValid(data) THEN Raised("ValueError")
            ELSE Returned(
                [name          |-> Get(data, "name", JStr("Untitled Recipe")).s,
                 description   |-> Get(data, "description", JStr("")).s,
                 ingredients   |-> StrList(Get(data, "ingredients", JList(<<>>))),
                 instructions  |-> StrList(Get(data, "instructions", JList(<<>>))),
                 prep_time_min |-> f[8].val,
                 cook_time_min |-> f[9].val,
                 servings      |-> f[10].val,
                 difficulty    |-> Get(data, "difficulty", JStr("medium")).s,
                 nutrition     |-> DefaultNutrition(f[1].val, f[2].val, f[3].val,
                                       f[4].val, f[5].val, f[6].val, f[7].val),
                 tags          |-> StrList(Get(data, "tags", JList(<<>>))),
                 cuisine       |-> OptStr(Get(data, "cuisine", JNull)),
                 dietary_info  |-> StrList(Get(data, "dietary_info", JList(<<>>)))])
        FromRaw(data, nutrition_raw) ==
            LET Rest(f) == Build(data, f) IN
            IF nutrition_raw.t # "obj" THEN Raised("AttributeError")
            ELSE With(<<RequiredFloat(nutrition_raw, "calories"),
                        RequiredFloat(nutrition_raw, "protein_g"),
                        RequiredFloat(nutrition_raw, "carbs_g"),
                        RequiredFloat(nutrition_raw, "fat_g"),
                        OptionalFloat(nutrition_raw, "fiber_g"),
                        OptionalFloat(nutrition_raw, "sugar_g"),
                        OptionalFloat(nutrition_raw, "sodium_mg"),
                        IntOf(Get(data, "prep_time_min", JNum(0))),
                        IntOf(Get(data, "cook_time_min", JNum(0))),
                        IntOf(Get(data, "servings", JNum(1)))>>, Rest)
        FromLoaded(loaded) ==
            LET Rest(nutrition_raw) == FromRaw(loaded.v, nutrition_raw) IN
            IF ~loaded.ok THEN Raised("JSONDecodeError")
            ELSE IF loaded.v.t # "obj" THEN Raised("AttributeError")
            ELSE With(Get(loaded.v, "nutrition_per_serving", JObj(<<>>)), Rest)
    IN  With(LoadJson(ai_response), FromLoaded)

\* "Return minimal recipe on error"; the description quotes the exception.
MinimalRecipe(exc) ==
    [name          |-> "Recipe Generation Error",
     description   |-> exc,
     ingredients   |-> <<>>,
     instructions  |-> <<>>,
     prep_time_min |-> 0,
     cook_time_min |-> 0,
     servings      |-> 1,
     difficulty    |-> "medium",
     nutrition     |-> DefaultNutrition(0, 0, 0, 0, <<>>, <<>>, <<>>),
     tags          |-> <<>>,
     cuisine       |-> "None",
     dietary_info  |-> <<>>]

\* _parse_recipe: except Exception catches whatever the try block raises.
_parse_recipe(ai_response) ==
    LET Except(r) == IF r.exc # "none" THEN Returned(MinimalRecipe(r.exc)) ELSE r
    IN  With(ParseRecipeTry(ai_response), Except)

(***************************************************************************)
(* Sample provider responses                                               *)
(***************************************************************************)

\* Bounds of the model.
MaxHedges == 4
MaxCalls == 3
MaxPosted == 51
MaxServices == 2

\* Uncertainty phrases a response may open with, and the first h of them.
HedgeList ==
    << <<W("Possibly")>>, <<W("not"), W("sure")>>, <<W("might"), W("be")>>,
       <<W("unclear")>>, <<W("could"), W("be")>>, <<W("probably")>>,
       <<W("difficult"), W("to"), W("tell")>> >>
RECURSIVE Hedges(_)
Hedges(h) == IF h = 0 THEN <<>> ELSE Hedges(h - 1) \o HedgeList[h]

\* The document the analysis prompt asks for, with the given calories and
\* protein_g values and the given "nutrition" member.
NutritionObj(cal, pro) ==
    JObj(<<KV("calories", cal), KV("protein_g", pro), KV("carbs_g", JNum(45)),
           KV("fat_g", JNum(15)), KV("fiber_g", JNum(5))>>)
MealDoc(nutrition) ==
    JObj(<<KV("meal_name", JStr("bowl")),
           KV("ingredients", JList(<<JStr("rice"), JStr("egg")>>)),
           KV("portions", JObj(<<KV("rice", JStr("1 cup"))>>)),
           KV("nutrition", nutrition),
           KV("meal_type", JStr("lunch")),
           KV("confidence_notes", JStr("estimated"))>>)
RecipeDoc(servings) ==
    JObj(<<KV("name", JStr("Stir Fry")),
           KV("description", JStr("quick")),
           KV("ingredients", JList(<<JStr("rice")>>)),
           KV("instructions", JList(<<JStr("cook")>>)),
           KV("prep_time_min", JNum(15)),
           KV("cook_time_min", JStr("30")),
           KV("servings", servings),
           KV("difficulty", JStr("easy")),
           KV("nutrition_per_serving", NutritionObj(JNum(350), JNum(25)))>>)

\* "This meal has about 450 calories and 30g protein, not much else
\* detected."
ProseSentence ==
    <<W("This"), W("meal"), W("has"), W("about"), Num(450), W("calories"),
      W("and"), Num(30), W("g"), W("protein"), COMMA, W("not"), W("much"),
      W("else"), W("detected")>>

\* {"calories": 410, "description": "turkey sandwich"}
QuickDoc ==
    JObj(<<KV("calories", JNum(410)),
           KV("description", JStr("turkey sandwich"))>>)

\* The bodies of the sample responses: JSON as asked for, JSON with a
\* missing, null, non-numeric or mistyped member, JSON that is no object,
\* broken JSON, prose, nothing.
Bodies ==
    { json_dumps(MealDoc(NutritionObj(JNum(520), JNum(30)))),
      json_dumps(MealDoc(NutritionObj(JStr("450"), JBool(TRUE)))),
      json_dumps(MealDoc(NutritionObj(JNull, JNum(30)))),
      json_dumps(MealDoc(NutritionObj(JStr("abc"), JNull))),
      json_dumps(MealDoc(JNull)),
      json_dumps(MealDoc(JObj(<<KV("fiber_g", JList(<<JNum(5)>>))>>))),
      json_dumps(JObj(<<KV("ingredients", JStr("rice, egg"))>>)),
      json_dumps(QuickDoc),
      json_dumps(RecipeDoc(JNum(4))),
      json_dumps(RecipeDoc(JNull)),
      json_dumps(JList(<<JObj(<<KV("name", JStr("Soup"))>>),
                         JObj(<<KV("name", JStr("Salad"))>>)>>)),
      json_dumps(JNum(450)),
      <<LBRACE, W("oops"), RBRACE>>,
      <<W("Calories"), COLON, Num(450), W("protein"), Num(30), W("g"),
        W("ingredients"), COLON, W("rice"), COMMA, W("egg")>>,
      ProseSentence,
      <<>> }

\* A response: up to MaxHedges uncertainty phrases, a body, and possibly a
\* long passage of further detail.
Texts ==
    { Hedges(h) \o b \o d :
        h \in 0..MaxHedges, b \in Bodies, d \in {<<>>, <<Prose(201)>>} }

Errors == {"timeout"}
Latencies == {1200}

\* Everything a call of this adapter method can meet.
Outcomes(provider, method) ==
    { [fail |-> f, error |-> e, text |-> <<>>, has_usage |-> FALSE,
       prompt_tokens |-> 0, completion_tokens |-> 0, total_tokens |-> 0,
       ms |-> l] :
        f \in AdapterSteps(provider, method), e \in Errors, l \in Latencies }
    \cup
    { [fail |-> NoFailure, error |-> "None", text |-> t, has_usage |-> u,
       prompt_tokens |-> 300, completion_tokens |-> 120, total_tokens |-> 420,
       ms |-> l] :
        t \in Texts, l \in Latencies,
        u \in IF provider = GEMINI_FLASH /\ method # "chat"
              THEN BOOLEAN ELSE {TRUE} }

(***************************************************************************)
(* Capability services: MealAnalyzer, RecipeGenerator, ChatAssistant       *)
(***************************************************************************)

CONFIDENCE_THRESHOLD == 70
ANALYSIS_PROMPT_CHARS == 1026
QUICK_PROMPT_CHARS == 150
DEFAULT_COUNT == 5

VARIABLES
    pc,         \* where the request is: NotStarted, PrimaryCalled,
                \* Escalating, Done
    request,    \* the call and its arguments
    selected,   \* analyze_meal's local `provider` ("None" before it is set)
    calls,      \* the adapter calls issued so far, in order
    outcomes,   \* what each finished call met at its provider
    envelopes,  \* the envelope each finished call returned
    result,     \* the local `result`: the envelope the service goes on with
    response,   \* what the service call gave its caller
    ptext,      \* the text handed to the parser (parser specification)
    presult,    \* what the parser did with it
    config,     \* the API keys the AIServiceFactory was built with
    subscription,   \* the Subscription row of the user who posts
    posted,     \* how many POST /ai/chat requests the user has sent this
                \* month, the current one included
    context,    \* the user_context handed to _format_user_context
    block,      \* what _format_user_context did with it
    ai_factory, \* the module global _ai_factory (0 for None)
    lru,        \* the entries of the accessors' lru_cache
    heap,       \* how many factories and services were constructed
    threads,    \* the threads that run a request dependency
    reqs        \* the service calls in flight on one event loop

requestVars == <<pc, request, selected, calls, outcomes, envelopes, result,
                 response>>
quotaVars == <<subscription, posted>>
contextVars == <<context, block>>
factoryVars == <<ai_factory, lru, heap, threads>>

vars == <<pc, request, selected, calls, outcomes, envelopes, result, response,
          ptext, presult, config, subscription, posted, context, block,
          ai_factory, lru, heap, threads, reqs>>

ServiceOps ==
    {"analyze_meal", "quick_calorie_estimate", "generate_recipe",
     "generate_from_photo", "suggest_recipes", "chat", "suggest_meal",
     "get_nutrition_advice", "analyze_diet_trends"}

\* The ops that take use_gpt4, and the adapter method each op calls.
TextOps == {"generate_recipe", "suggest_recipes", "suggest_meal",
            "get_nutrition_advice", "analyze_diet_trends"}
ImageOps == {"analyze_meal", "quick_calorie_estimate", "generate_from_photo"}
MethodOf(op) ==
    IF op \in ImageOps THEN "analyze_image"
    ELSE IF op = "chat" THEN "chat" ELSE "generate_text"

Tiers == {"free", "basic", "pro", "premium", "Premium"}
PromptSizes == {900}

NoEnvelope == Envelope("None", "None", <<>>, 0, 0, 0, 0, "None")
Pending == [kind |-> "pending", exc |-> "none", body |-> <<>>]

\* Variant for C7: the basic tier routed like the premium tier.
_select_provider_BasicIsPremium(user_tier, force_provider) ==
    IF force_provider # "None" THEN force_provider
    ELSE IF user_tier \in {"premium", "basic"} THEN GPT4_VISION
    ELSE GEMINI_FLASH

\* Variant for C27: a premium request starts on Gemini and relies on the
\* upgrade.
_select_provider_PremiumStartsCheap(user_tier, force_provider) ==
    IF force_provider # "None" THEN force_provider
    ELSE GEMINI_FLASH

\* Variant for C29: the tier compared without regard to case.
_select_provider_AnyCase(user_tier, force_provider) ==
    IF force_provider # "None" THEN force_provider
    ELSE IF user_tier \in {"premium", "Premium"} THEN GPT4_VISION
    ELSE GEMINI_FLASH

\* MealAnalyzer._select_provider
_select_provider(user_tier, force_provider) ==
    IF force_provider # "None" THEN force_provider
    ELSE IF user_tier = "premium" THEN GPT4_VISION
    ELSE GEMINI_FLASH

\* The adapter the first call of a request goes to.
\*   analyze_meal: self.gemini if provider == GEMINI_FLASH, else self.gpt4
\*   quick_calorie_estimate: self.gemini; generate_from_photo: self.gpt4
\*   every other op: self.gpt4 if use_gpt4 else self.gemini
\* Variant for C19: the quick estimate sent to the provider of the photo
\* recipe.
PrimaryAdapter_QuickOnGPT4(req) ==
    CASE req.op = "analyze_meal" ->
            IF _select_provider(req.user_tier, req.force_provider) = GEMINI_FLASH
            THEN GEMINI_FLASH ELSE GPT4_VISION
      [] req.op \in {"quick_calorie_estimate", "generate_from_photo"} ->
            GPT4_VISION
      [] OTHER -> IF req.use_gpt4 THEN GPT4_VISION ELSE GEMINI_FLASH

\* Variant for C20: the photo recipe on GPT-4 only when the caller asks
\* for a different dish.
PrimaryAdapter_PhotoByPreference(req) ==
    CASE req.op = "analyze_meal" ->
            IF _select_provider(req.user_tier, req.force_provider) = GEMINI_FLASH
            THEN GEMINI_FLASH ELSE GPT4_VISION
      [] req.op = "quick_calorie_estimate" -> GEMINI_FLASH
      [] req.op = "generate_from_photo" ->
            IF req.preference \in {"similar", "healthier", "different"}
            THEN GPT4_VISION ELSE GEMINI_FLASH
      [] OTHER -> IF req.use_gpt4 THEN GPT4_VISION ELSE GEMINI_FLASH

PrimaryAdapter(req) ==
    CASE req.op = "analyze_meal" ->
            IF _select_provider(req.user_tier, req.force_provider) = GEMINI_FLASH
            THEN GEMINI_FLASH ELSE GPT4_VISION
      [] req.op = "quick_calorie_estimate" -> GEMINI_FLASH
      [] req.op = "generate_from_photo" -> GPT4_VISION
      [] OTHER -> IF req.use_gpt4 THEN GPT4_VISION ELSE GEMINI_FLASH

\* Variant for C1: the threshold itself counts as low confidence.
EscalationDue_AtThreshold(req, provider, n_calls, res) ==
    /\ req.op = "analyze_meal"
    /\ provider = GEMINI_FLASH
    /\ n_calls = 1
    /\ res.confidence <= CONFIDENCE_THRESHOLD
    /\ req.user_tier = "premium"

\* Variant for C4: the upgrade written as a loop, "while confidence is low".
EscalationDue_WhileLow(req, provider, n_calls, res) ==
    /\ req.op = "analyze_meal"
    /\ res.confidence < CONFIDENCE_THRESHOLD
    /\ req.user_tier = "premium"

\* Variant for C5: a call that ended in an error is tried again on GPT-4.
EscalationDue_RetryOnError(req, provider, n_calls, res) ==
    /\ req.op = "analyze_meal"
    /\ \/ res.error # "None"
       \/ /\ provider = GEMINI_FLASH
          /\ n_calls = 1
          /\ res.confidence < CONFIDENCE_THRESHOLD
          /\ req.user_tier = "premium"

\* Variant for C26: every op upgrades a low-confidence Gemini answer.
EscalationDue_EveryOp(req, provider, n_calls, res) ==
    /\ provider = GEMINI_FLASH
    /\ n_calls = 1
    /\ res.confidence < CONFIDENCE_THRESHOLD
    /\ req.op = "analyze_meal" => req.user_tier = "premium"

\* analyze_meal, after a call has returned: "If confidence is low, upgrade
\* to GPT-4". The test sits in the Gemini branch, after the one Gemini
\* call; no other op has it.
EscalationDue(req, provider, n_calls, res) ==
    /\ req.op = "analyze_meal"
    /\ provider = GEMINI_FLASH
    /\ n_calls = 1
    /\ res.confidence < CONFIDENCE_THRESHOLD
    /\ req.user_tier = "premium"

\* Variant for C28: the cost of the request, the discarded call included.
FullMetadata_RequestCost(res) ==
    [provider |-> res.provider, model |-> res.model,
     confidence |-> res.confidence,
     cost_usd |-> res.cost_usd
                  + (IF envelopes = <<>> THEN 0 ELSE envelopes[1].cost_usd),
     response_time_ms |-> res.response_time_ms,
     tokens_used |-> res.tokens_used, error |-> res.error]

\* The ai_metadata block each op builds from `result`.
FullMetadata(res) ==
    [provider |-> res.provider, model |-> res.model,
     confidence |-> res.confidence, cost_usd |-> res.cost_usd,
     response_time_ms |-> res.response_time_ms,
     tokens_used |-> res.tokens_used, error |-> res.error]
ChatMetadata(res) ==
    [provider |-> res.provider, model |-> res.model,
     confidence |-> res.confidence, cost_usd |-> res.cost_usd,
     response_time_ms |-> res.response_time_ms,
     tokens_used |-> res.tokens_used]
RecipeMetadata(res) ==
    [provider |-> res.provider, model |-> res.model,
     confidence |-> res.confidence, cost_usd |-> res.cost_usd,
     response_time_ms |-> res.response_time_ms]
ShortMetadata(res) ==
    [provider |-> res.provider, cost_usd |-> res.cost_usd,
     response_time_ms |-> res.response_time_ms]

ReturnedBody(b) == [kind |-> "returned", exc |-> "none", body |-> b]
RaisedExc(e)    == [kind |-> "raised", exc |-> e, body |-> <<>>]

\* analyze_meal from "Parse nutrition data" on.
AnalyzeMealFinish(res) ==
    LET Return(nutrition) ==
            IF nutrition.exc # "none" THEN RaisedExc(nutrition.exc)
            ELSE ReturnedBody([nutrition |-> nutrition.val,
                               ai_metadata |-> FullMetadata(res)])
    IN  With(_parse_nutrition(res.content), Return)

\* quick_calorie_estimate after its call: json.loads of the whole content
\* and two .get; the bare except answers every failure.
QuickEstimateFinish(res) ==
    LET Return(loaded) ==
            IF loaded.ok /\ loaded.v.t = "obj"
            THEN ReturnedBody(
                    [calories |-> Get(loaded.v, "calories", JNum(0)),
                     description |-> Get(loaded.v, "description",
                                         JStr("Unknown meal")),
                     cost_usd |-> res.cost_usd,
                     response_time_ms |-> res.response_time_ms])
            ELSE ReturnedBody(
                    [calories |-> JNum(0),
                     description |-> JStr("Could not analyze"),
                     error |-> res.error])
    IN  With(json_loads(res.content), Return)

\* re.search(r'\[.*\]', text, re.DOTALL)
BracketMatch(text) ==
    LET opens  == {i \in 1..Len(text) : text[i].k = "["}
        closes == {j \in 1..Len(text) : text[j].k = "]"}
        ok     == {i \in opens : \E j \in closes : j > i}
    IN  IF ok = {} THEN [found |-> FALSE, group |-> <<>>]
        ELSE LET i == CHOOSE a \in ok : \A b \in ok : a <= b
                 j == CHOOSE a \in closes : \A b \in closes : a >= b
             IN  [found |-> TRUE, group |-> SubSeq(text, i, j)]

\* suggest_recipes after its call: the JSON array found in the content, cut
\* to count; [] when there is none or it does not parse.
SuggestRecipesFinish(req, res) ==
    LET Return(loaded) ==
            IF loaded.ok /\ loaded.v.t = "list"
            THEN ReturnedBody([suggestions |->
                    SubSeq(loaded.v.m, 1, Min(req.count, Len(loaded.v.m)))])
            ELSE ReturnedBody([suggestions |-> <<>>])
        Search(json_match) ==
            IF json_match.found THEN With(json_loads(json_match.group), Return)
            ELSE ReturnedBody([suggestions |-> <<>>])
    IN  With(BracketMatch(res.content), Search)

\* What the service does with the envelope it goes on with.
Finish(req, res) ==
    CASE req.op = "analyze_meal" -> AnalyzeMealFinish(res)
      [] req.op = "quick_calorie_estimate" -> QuickEstimateFinish(res)
      [] req.op = "generate_recipe" ->
            ReturnedBody([recipe |-> _parse_recipe(res.content).val,
                          ai_metadata |-> RecipeMetadata(res)])
      [] req.op = "generate_from_photo" ->
            ReturnedBody([recipe |-> _parse_recipe(res.content).val,
                          ai_metadata |-> ShortMetadata(res)])
      [] req.op = "suggest_recipes" -> SuggestRecipesFinish(req, res)
      [] req.op = "chat" ->
            ReturnedBody([response |-> res.content,
                          ai_metadata |-> ChatMetadata(res)])
      [] req.op = "suggest_meal" ->
            ReturnedBody([suggestion |-> res.content,
                          ai_metadata |-> ShortMetadata(res)])
      [] req.op = "get_nutrition_advice" ->
            ReturnedBody([advice |-> res.content,
                          ai_metadata |-> ShortMetadata(res)])
      [] req.op = "analyze_diet_trends" ->
            ReturnedBody([analysis |-> res.content,
                          ai_metadata |-> ShortMetadata(res)])

\* The requests a caller can make.
\* generate_from_photo: the preference picks the extra instruction of the
\* prompt; every value but "healthier" and "different" is read as "similar".
Preferences == {"similar", "healthier", "different", "spicier"}
PHOTO_PROMPT_HEALTHIER == 673
PHOTO_PROMPT_DIFFERENT == 674
PHOTO_PROMPT_SIMILAR == 662
PhotoPromptChars(preference) ==
    IF preference = "healthier" THEN PHOTO_PROMPT_HEALTHIER
    ELSE IF preference = "different" THEN PHOTO_PROMPT_DIFFERENT
    ELSE PHOTO_PROMPT_SIMILAR

\* user_tier is an argument of analyze_meal only; for generate_from_photo
\* it is the tier of the caller, which the service is not told.
Requests ==
    { [op |-> "analyze_meal", user_tier |-> t, force_provider |-> f,
       use_gpt4 |-> FALSE, count |-> DEFAULT_COUNT, preference |-> "None",
       prompt_chars |-> ANALYSIS_PROMPT_CHARS] :
        t \in Tiers, f \in AIProvider \cup {"None"} }
    \cup
    { [op |-> "quick_calorie_estimate", user_tier |-> "free",
       force_provider |-> "None", use_gpt4 |-> FALSE, count |-> DEFAULT_COUNT,
       preference |-> "None", prompt_chars |-> QUICK_PROMPT_CHARS] }
    \cup
    { [op |-> "generate_from_photo", user_tier |-> t,
       force_provider |-> "None", use_gpt4 |-> FALSE, count |-> DEFAULT_COUNT,
       preference |-> p, prompt_chars |-> PhotoPromptChars(p)] :
        t \in Tiers, p \in Preferences }
    \cup
    { [op |-> o, user_tier |-> "free", force_provider |-> "None",
       use_gpt4 |-> g, count |-> c, preference |-> "None",
       prompt_chars |-> p] :
        o \in TextOps \cup {"chat"},
        g \in BOOLEAN, c \in {1, DEFAULT_COUNT}, p \in PromptSizes }

(***************************************************************************)
(* AIServiceFactory (core/ai_config.py) and the endpoints (endpoints/ai.py)*)
(***************************************************************************)

\* An API key as the factory holds it: None, the empty string, or a key.
ApiKeys == {"None", "", "sk-key"}
Configs == [gemini_api_key : ApiKeys, openai_api_key : ApiKeys]
Configured == [gemini_api_key |-> "sk-key", openai_api_key |-> "sk-key"]

\* `not self.<key>`
KeyMissing(key) == key \in {"None", ""}

\* Variant for C17: the chat assistant handed out when one key is there.
get_chat_assistant_EitherKey(cfg) ==
    IF KeyMissing(cfg.gemini_api_key) /\ KeyMissing(cfg.openai_api_key)
    THEN "None" ELSE "ChatAssistant"

\* The getters: the service, or None while a key is missing.
get_meal_analyzer(cfg) ==
    IF KeyMissing(cfg.gemini_api_key) \/ KeyMissing(cfg.openai_api_key)
    THEN "None" ELSE "MealAnalyzer"
get_recipe_generator(cfg) ==
    IF KeyMissing(cfg.gemini_api_key) \/ KeyMissing(cfg.openai_api_key)
    THEN "None" ELSE "RecipeGenerator"
get_chat_assistant(cfg) ==
    IF KeyMissing(cfg.gemini_api_key) \/ KeyMissing(cfg.openai_api_key)
    THEN "None" ELSE "ChatAssistant"

\* Depends(...): the service the endpoint of an op is given.
ServiceFor(cfg, op) ==
    CASE op \in {"analyze_meal", "quick_calorie_estimate"} ->
            get_meal_analyzer(cfg)
      [] op \in {"generate_recipe", "generate_from_photo", "suggest_recipes"} ->
            get_recipe_generator(cfg)
      [] OTHER -> get_chat_assistant(cfg)

\* The service methods an endpoint exists for (get_nutrition_advice has
\* none).
EndpointOps == ServiceOps \ {"get_nutrition_advice"}

\* raise HTTPException(status_code=503, detail="AI services not configured")
Unavailable ==
    [kind |-> "http_error", exc |-> "503",
     body |-> [detail |-> "AI services not configured"]]

\* /analyze-diet with no meals logged (recent_meals is always []).
NoMealsLogged ==
    ReturnedBody([analysis |-> "No meals logged yet", meals_analyzed |-> 0])

(***************************************************************************)
(* The request state machine                                               *)
(***************************************************************************)

(***************************************************************************)
(* ChatAssistant._format_user_context                                      *)
(***************************************************************************)

\* The fields the function looks at, in the order it looks at them, and
\* the label each line starts with.
ContextFields ==
    <<"health_goals", "dietary_restrictions", "daily_calorie_goal",
      "recent_meals", "average_daily_calories", "preferences">>
ContextLabel(k) ==
    CASE k = "health_goals" -> "**Health Goals:**"
      [] k = "dietary_restrictions" -> "**Dietary Restrictions:**"
      [] k = "daily_calorie_goal" -> "**Daily Calorie Goal:**"
      [] k = "recent_meals" -> "**Recent Meals:**"
      [] k = "average_daily_calories" -> "**Avg Daily Calories:**"
      [] OTHER -> "**Preferences:**"

NO_USER_CONTEXT == <<W("No user context available")>>
NO_DETAILED_CONTEXT == <<W("No detailed context available")>>

\* ', '.join(items)
RECURSIVE JoinComma(_)
JoinComma(items) ==
    IF items = <<>> THEN <<>>
    ELSE IF Len(items) = 1 THEN <<W(items[1].val.s)>>
    ELSE <<W(items[1].val.s), COMMA>> \o JoinComma(Tail(items))

\* f"{value}" of a number or a string.
FormatValue(v) == IF v.t = "num" THEN Num(v.n) ELSE W(v.s)

\* The line appended for field k with value v.
ContextLine(k, v) ==
    CASE k \in {"health_goals", "dietary_restrictions"} ->
            <<W(ContextLabel(k))>> \o JoinComma(v.m)
      [] k \in {"daily_calorie_goal", "average_daily_calories"} ->
            <<W(ContextLabel(k)), FormatValue(v), W("kcal")>>
      [] k = "recent_meals" ->
            <<W(ContextLabel(k)), FormatValue(v), W("meals"), W("logged")>>
      [] OTHER -> <<W(ContextLabel(k)), FormatValue(v)>>

\* Variant for C25: the fields read with context[k] instead of
\* context.get(k).
RECURSIVE ContextParts_Indexing(_, _)
ContextParts_Indexing(d, i) ==
    IF i > Len(ContextFields) THEN Returned(<<>>)
    ELSE LET k == ContextFields[i] IN
         IF k \notin DOMAIN d THEN Raised("KeyError")
         ELSE LET rest == ContextParts_Indexing(d, i + 1) IN
              IF rest.exc # "none" THEN rest
              ELSE IF Truthy(d[k])
              THEN Returned(<<ContextLine(k, d[k])>> \o rest.val)
              ELSE rest

\* parts, from field number i on: `if context.get(k): parts.append(...)`.
RECURSIVE ContextParts(_, _)
ContextParts(d, i) ==
    IF i > Len(ContextFields) THEN Returned(<<>>)
    ELSE LET k == ContextFields[i]
             rest == ContextParts(d, i + 1)
         IN  IF k \in DOMAIN d /\ Truthy(d[k])
             THEN Returned(<<ContextLine(k, d[k])>> \o rest.val)
             ELSE rest

\* The text as its lines ("\n".join(parts)), or one of the placeholders.
_format_user_context(ctx) ==
    IF ctx.is_none \/ DOMAIN ctx.d = {} THEN Returned(<<NO_USER_CONTEXT>>)
    ELSE LET parts == ContextParts(ctx.d, 1) IN
         IF parts.exc # "none" THEN parts
         ELSE IF parts.val = <<>> THEN Returned(<<NO_DETAILED_CONTEXT>>)
         ELSE parts

\* Python's None for a context.
NoContext == [is_none |-> TRUE, d |-> <<>>]

\* A field left out of the dictionary.
Absent == [t |-> "absent", n |-> 0, s |-> "", m |-> <<>>]

\* Contexts: None, and every dictionary with a subset of the fields, each
\* with a value or with an empty one ([], 0, None, "").
ContextChoices ==
    [health_goals :
        {Absent, JList(<<>>),
         JList(<<JStr("lose weight"), JStr("more protein")>>)},
     dietary_restrictions : {Absent, JList(<<>>), JList(<<JStr("vegan")>>)},
     daily_calorie_goal : {Absent, JNull, JNum(2000)},
     recent_meals : {Absent, JNum(0), JNum(3)},
     average_daily_calories : {Absent, JNum(1850)},
     preferences : {Absent, JStr(""), JStr("spicy")}]
DictOf(c) == [k \in {f \in DOMAIN c : c[f] # Absent} |-> c[k]]
Contexts ==
    {NoContext} \cup {[is_none |-> FALSE, d |-> DictOf(c)] : c \in ContextChoices}

(***************************************************************************)
(* State around the service calls, at rest                                 *)
(***************************************************************************)

\* Subscription.ai_requests_limit: "50 for free".
FREE_AI_LIMIT == 50

\* The row of a free-tier user at the start of a month.
FreeSubscription ==
    [tier |-> "free", status |-> "active", ai_requests_this_month |-> 0,
     ai_requests_limit |-> FREE_AI_LIMIT]

\* The result of _format_user_context while it is not there.
NoBlock == [kind |-> "pending", exc |-> "none", text |-> <<>>]

\* The worker threads and a thread that has not run yet.
Threads == {"t1", "t2"}
IdleThread == [pc |-> "idle", accessor |-> "none", factory |-> 0,
               fresh |-> 0, service |-> 0]

\* No request at all (the variables of a service call at rest).
NoRequest ==
    [op |-> "none", user_tier |-> "free", force_provider |-> "None",
     use_gpt4 |-> FALSE, count |-> DEFAULT_COUNT, preference |-> "None",
     prompt_chars |-> 0]

RequestIdle ==
    /\ pc = "NotStarted"
    /\ request = NoRequest
    /\ selected = "None"
    /\ calls = <<>>
    /\ outcomes = <<>>
    /\ envelopes = <<>>
    /\ result = NoEnvelope
    /\ response = Pending
ParseIdle == ptext = <<>> /\ presult = Pending
QuotaIdle == subscription = FreeSubscription /\ posted = 0
ContextIdle == context = NoContext /\ block = NoBlock
FactoryIdle ==
    /\ ai_factory = 0
    /\ lru = {}
    /\ heap = [factories |-> 0, services |-> 0]
    /\ threads = [t \in Threads |-> IdleThread]
ConcurrentIdle == reqs = <<>>

\* One service call on a configured factory, nothing else going on.
Init ==
    /\ pc = "NotStarted"
    /\ request \in Requests
    /\ selected = "None"
    /\ calls = <<>>
    /\ outcomes = <<>>
    /\ envelopes = <<>>
    /\ result = NoEnvelope
    /\ response = Pending
    /\ ptext = <<>>
    /\ presult = Pending
    /\ config = Configured
    /\ QuotaIdle /\ ContextIdle /\ FactoryIdle /\ ConcurrentIdle

Call(provider, method) == [provider |-> provider, method |-> method]

\* The service call runs up to its first await: it picks the adapter and
\* issues the primary call.
Start ==
    /\ pc = "NotStarted"
    /\ ServiceFor(config, request.op) # "None"
    /\ selected' = IF request.op = "analyze_meal"
                   THEN _select_provider(request.user_tier, request.force_provider)
                   ELSE "None"
    /\ calls' = <<Call(PrimaryAdapter(request), MethodOf(request.op))>>
    /\ pc' = "PrimaryCalled"
    /\ UNCHANGED <<request, outcomes, envelopes, result, response, ptext,
                   presult, config,
                   quotaVars, contextVars, factoryVars, reqs>>

\* The awaited call number Len(calls) returns (or raises) and the service
\* runs on to its next await or to its end.
Resume(o) ==
    LET call == calls[Len(calls)] IN
    /\ outcomes' = Append(outcomes, o)
    /\ \E r \in {AdapterCall(call.provider, call.method, request.prompt_chars, o)} :
          IF r.exc # "none"
          THEN /\ response' = RaisedExc(r.exc)
               /\ pc' = "Done"
               /\ UNCHANGED <<calls, envelopes, result>>
          ELSE /\ envelopes' = Append(envelopes, r.val)
               /\ result' = r.val
               /\ IF /\ EscalationDue(request, call.provider, Len(calls), r.val)
                     /\ Len(calls) < MaxCalls
                  THEN /\ calls' = Append(calls, Call(GPT4_VISION, "analyze_image"))
                       /\ pc' = "Escalating"
                       /\ UNCHANGED response
                  ELSE /\ response' = Finish(request, r.val)
                       /\ pc' = "Done"
                       /\ UNCHANGED calls
    /\ UNCHANGED <<request, selected, ptext, presult, config,
                   quotaVars, contextVars, factoryVars, reqs>>

PrimaryReturn ==
    /\ pc = "PrimaryCalled"
    /\ \E o \in Outcomes(calls[1].provider, calls[1].method) : Resume(o)

EscalationReturn ==
    /\ pc = "Escalating"
    /\ \E o \in Outcomes(calls[Len(calls)].provider, calls[Len(calls)].method) :
          Resume(o)

Next == Start \/ PrimaryReturn \/ EscalationReturn

Spec == Init /\ [][Next]_vars

\* The event loop runs a started coroutine and resumes it when the call it
\* awaits completes.
FairSpec == Spec /\ WF_vars(Next)

\* The same request when nothing is assumed of the provider. The service
\* runs to its first await by itself; an awaited call ends only when the
\* provider answers or the SDK raises: the adapters pass no timeout to
\* generate_content, send_message or chat.completions.create and never
\* read config.timeout (only the image download has timeout=10, an
\* outcome that fails at "prepare_image").
SilentProviderSpec == Spec /\ WF_vars(Start)

(***************************************************************************)
(* The parser on its own                                                   *)
(***************************************************************************)

ParseInit ==
    /\ pc = "NotStarted"
    /\ request \in {r \in Requests : r.op = "analyze_meal"
                       /\ r.user_tier = "free" /\ r.force_provider = "None"}
    /\ selected = "None"
    /\ calls = <<>>
    /\ outcomes = <<>>
    /\ envelopes = <<>>
    /\ result = NoEnvelope
    /\ response = Pending
    /\ ptext \in Texts
    /\ presult = Pending
    /\ config = Configured
    /\ QuotaIdle /\ ContextIdle /\ FactoryIdle /\ ConcurrentIdle

ParseText ==
    /\ presult = Pending
    /\ presult' = LET r == _parse_nutrition(ptext) IN
                  IF r.exc # "none" THEN RaisedExc(r.exc) ELSE ReturnedBody(r.val)
    /\ UNCHANGED <<pc, request, selected, calls, outcomes, envelopes, result,
                   response, ptext, config,
                   quotaVars, contextVars, factoryVars, reqs>>

ParseNext == ParseText

ParseSpec == ParseInit /\ [][ParseNext]_vars

(***************************************************************************)
(* The two adapters on the same response                                   *)
(***************************************************************************)

\* A provider call that succeeds with the given text.
\* Responses with up to all of the uncertainty phrases, and one that says
\* the same phrase twice.
HedgedTexts ==
    { Hedges(h) \o b \o d :
        h \in 0..Len(HedgeList), b \in Bodies, d \in {<<>>, <<Prose(201)>>} }
    \cup { Hedges(1) \o Hedges(1) }

SuccessOutcome(text) ==
    [fail |-> NoFailure, error |-> "None", text |-> text, has_usage |-> TRUE,
     prompt_tokens |-> 300, completion_tokens |-> 120, total_tokens |-> 420,
     ms |-> 1200]

CompareInit ==
    /\ pc = "NotStarted"
    /\ request \in {r \in Requests :
                       /\ r.op \in {"generate_from_photo", "generate_recipe", "chat"}
                       /\ r.user_tier = "free" /\ ~r.use_gpt4
                       /\ r.count = DEFAULT_COUNT
                       /\ r.preference \in {"None", "similar"}}
    /\ selected = "None"
    /\ calls = <<>>
    /\ outcomes = <<>>
    /\ envelopes = <<>>
    /\ result = NoEnvelope
    /\ response = Pending
    /\ ptext \in HedgedTexts
    /\ presult = Pending
    /\ config = Configured
    /\ QuotaIdle /\ ContextIdle /\ FactoryIdle /\ ConcurrentIdle

\* The same method of both adapters meets the same response.
CompareAdapters ==
    /\ pc = "NotStarted"
    /\ \E o \in {SuccessOutcome(ptext)}, m \in {MethodOf(request.op)} :
          /\ calls' = <<Call(GEMINI_FLASH, m), Call(GPT4_VISION, m)>>
          /\ outcomes' = <<o, o>>
          /\ envelopes' =
                <<AdapterCall(GEMINI_FLASH, m, request.prompt_chars, o).val,
                  AdapterCall(GPT4_VISION, m, request.prompt_chars, o).val>>
    /\ pc' = "Done"
    /\ UNCHANGED <<request, selected, result, response, ptext, presult, config,
                   quotaVars, contextVars, factoryVars, reqs>>

CompareNext == CompareAdapters

CompareSpec == CompareInit /\ [][CompareNext]_vars

(***************************************************************************)
(* The endpoints over the factory                                          *)
(***************************************************************************)

ConfigInit ==
    /\ pc = "NotStarted"
    /\ request \in {r \in Requests : r.op \in EndpointOps}
    /\ selected = "None"
    /\ calls = <<>>
    /\ outcomes = <<>>
    /\ envelopes = <<>>
    /\ result = NoEnvelope
    /\ response = Pending
    /\ ptext = <<>>
    /\ presult = Pending
    /\ config \in Configs
    /\ QuotaIdle /\ ContextIdle /\ FactoryIdle /\ ConcurrentIdle

\* if not <service>: raise HTTPException(status_code=503, ...)
Reject ==
    /\ pc = "NotStarted"
    /\ ServiceFor(config, request.op) = "None"
    /\ response' = Unavailable
    /\ pc' = "Done"
    /\ UNCHANGED <<request, selected, calls, outcomes, envelopes, result,
                   ptext, presult, config,
                   quotaVars, contextVars, factoryVars, reqs>>

\* /analyze-diet answers without the assistant: no meals are fetched.
DietWithoutMeals ==
    /\ pc = "NotStarted"
    /\ request.op = "analyze_diet_trends"
    /\ ServiceFor(config, request.op) # "None"
    /\ response' = NoMealsLogged
    /\ pc' = "Done"
    /\ UNCHANGED <<request, selected, calls, outcomes, envelopes, result,
                   ptext, presult, config,
                   quotaVars, contextVars, factoryVars, reqs>>

\* Every other endpoint calls its service method.
EndpointCall == request.op # "analyze_diet_trends" /\ Start

ConfigNext ==
    Reject \/ DietWithoutMeals \/ EndpointCall \/ PrimaryReturn \/ EscalationReturn

ConfigSpec == ConfigInit /\ [][ConfigNext]_vars

(***************************************************************************)
(* _format_user_context on its own                                         *)
(***************************************************************************)

ContextInit ==
    /\ RequestIdle /\ ParseIdle
    /\ config = Configured
    /\ QuotaIdle /\ FactoryIdle /\ ConcurrentIdle
    /\ context \in Contexts
    /\ block = NoBlock

FormatContext ==
    /\ block = NoBlock
    /\ block' = LET r == _format_user_context(context) IN
                IF r.exc # "none"
                THEN [kind |-> "raised", exc |-> r.exc, text |-> <<>>]
                ELSE [kind |-> "returned", exc |-> "none", text |-> r.val]
    /\ UNCHANGED <<requestVars, ptext, presult, config, quotaVars, context,
                   factoryVars, reqs>>

ContextNext == FormatContext

ContextSpec == ContextInit /\ [][ContextNext]_vars

(***************************************************************************)
(* get_ai_factory and the cached accessors, on the threads that resolve    *)
(* request dependencies                                                    *)
(***************************************************************************)

\* The dependency functions; each is a plain def, run on a worker thread.
Accessors == {"get_meal_analyzer", "get_recipe_generator", "get_chat_assistant"}

FactoryInit ==
    /\ RequestIdle /\ ParseIdle
    /\ config = Configured
    /\ QuotaIdle /\ ContextIdle /\ ConcurrentIdle
    /\ FactoryIdle

\* The entry of the accessor's lru_cache for this factory (self is the key).
CacheEntries(factory, accessor) ==
    {e \in lru : e.factory = factory /\ e.accessor = accessor}

\* No thread of the pool touches a request in flight.
FactoryFrame ==
    UNCHANGED <<requestVars, ptext, presult, config, quotaVars, contextVars,
                reqs>>

\* A request needs a service: its dependency starts on thread t.
Depend(t) ==
    /\ threads[t].pc = "idle"
    /\ \E a \in Accessors :
          threads' = [threads EXCEPT ![t].pc = "check", ![t].accessor = a]
    /\ UNCHANGED <<ai_factory, lru, heap>>
    /\ FactoryFrame

\* get_ai_factory: `if _ai_factory is None:`
CheckFactory(t) ==
    /\ threads[t].pc = "check"
    /\ threads' = [threads EXCEPT ![t].pc =
                      IF ai_factory = 0 THEN "construct_factory"
                      ELSE "return_factory"]
    /\ UNCHANGED <<ai_factory, lru, heap>>
    /\ FactoryFrame

\* `AIServiceFactory()`: reads the environment, prints its warnings.
ConstructFactory(t) ==
    /\ threads[t].pc = "construct_factory"
    /\ heap' = [heap EXCEPT !.factories = @ + 1]
    /\ threads' = [threads EXCEPT ![t].pc = "assign_factory",
                                  ![t].fresh = heap.factories + 1]
    /\ UNCHANGED <<ai_factory, lru>>
    /\ FactoryFrame

\* `_ai_factory = ...`
AssignFactory(t) ==
    /\ threads[t].pc = "assign_factory"
    /\ ai_factory' = threads[t].fresh
    /\ threads' = [threads EXCEPT ![t].pc = "return_factory"]
    /\ UNCHANGED <<lru, heap>>
    /\ FactoryFrame

\* `return _ai_factory`
ReturnFactory(t) ==
    /\ threads[t].pc = "return_factory"
    /\ threads' = [threads EXCEPT ![t].pc = "cache_lookup",
                                  ![t].factory = ai_factory]
    /\ UNCHANGED <<ai_factory, lru, heap>>
    /\ FactoryFrame

\* The lru_cache wrapper looks the key up: a hit returns the cached
\* service, a miss calls the method.
CacheLookup(t) ==
    /\ threads[t].pc = "cache_lookup"
    /\ LET hit == CacheEntries(threads[t].factory, threads[t].accessor) IN
       IF hit # {}
       THEN threads' = [threads EXCEPT ![t].pc = "done",
                           ![t].service = (CHOOSE e \in hit : TRUE).service]
       ELSE threads' = [threads EXCEPT ![t].pc = "construct_service"]
    /\ UNCHANGED <<ai_factory, lru, heap>>
    /\ FactoryFrame

\* The method body: MealAnalyzer(...), RecipeGenerator(...) or
\* ChatAssistant(...), which build their two adapters.
ConstructService(t) ==
    /\ threads[t].pc = "construct_service"
    /\ heap' = [heap EXCEPT !.services = @ + 1]
    /\ threads' = [threads EXCEPT ![t].pc = "cache_store",
                                  ![t].fresh = heap.services + 1]
    /\ UNCHANGED <<ai_factory, lru>>
    /\ FactoryFrame

\* The wrapper stores the result unless the key was added during the
\* call, and returns the result of its own call either way.
CacheStore(t) ==
    /\ threads[t].pc = "cache_store"
    /\ lru' = IF CacheEntries(threads[t].factory, threads[t].accessor) # {}
              THEN lru
              ELSE lru \cup {[factory |-> threads[t].factory,
                              accessor |-> threads[t].accessor,
                              service |-> threads[t].fresh]}
    /\ threads' = [threads EXCEPT ![t].pc = "done",
                                  ![t].service = threads[t].fresh]
    /\ UNCHANGED <<ai_factory, heap>>
    /\ FactoryFrame

\* A worker thread takes the dependency of a later request.
NextDependency(t) ==
    /\ threads[t].pc = "done"
    /\ heap.services < MaxServices
    /\ threads' = [threads EXCEPT ![t] = IdleThread]
    /\ UNCHANGED <<ai_factory, lru, heap>>
    /\ FactoryFrame

FactoryNext ==
    \E t \in Threads :
        \/ Depend(t) \/ CheckFactory(t) \/ ConstructFactory(t)
        \/ AssignFactory(t) \/ ReturnFactory(t) \/ CacheLookup(t)
        \/ ConstructService(t) \/ CacheStore(t) \/ NextDependency(t)

FactorySpec == FactoryInit /\ [][FactoryNext]_vars

(***************************************************************************)
(* Two service calls in flight on the shared service instances             *)
(***************************************************************************)

\* The calls that run side by side: an analysis that can escalate, a chat
\* on GPT-4 and a quick estimate.
ConcurrentRequests ==
    {r \in Requests :
        \/ /\ r.op = "analyze_meal" /\ r.user_tier = "premium"
           /\ r.force_provider = GEMINI_FLASH
        \/ r.op = "chat" /\ r.use_gpt4 /\ r.count = DEFAULT_COUNT
        \/ r.op = "quick_calorie_estimate"}

\* What their provider calls meet: a good document, a hedged one, the
\* quick document, or a failure.
ConcurrentTexts ==
    { json_dumps(MealDoc(NutritionObj(JNum(520), JNum(30)))),
      Hedges(2) \o json_dumps(MealDoc(NutritionObj(JNum(520), JNum(30)))),
      json_dumps(QuickDoc) }
ConcurrentOutcomes(provider, method) ==
    {o \in Outcomes(provider, method) :
        o.fail # NoFailure \/ (o.text \in ConcurrentTexts /\ o.has_usage)}

\* The frame of a service coroutine: its arguments and locals.
NewCall(req) ==
    [pc |-> "NotStarted", request |-> req, calls |-> <<>>, outcomes |-> <<>>,
     envelopes |-> <<>>, result |-> NoEnvelope, response |-> Pending]

\* Variant for C22: the envelope kept on the service instance, where the
\* call that stored last wins.
LocalResult_OnInstance(i, env) ==
    IF reqs[3 - i].result # NoEnvelope THEN reqs[3 - i].result ELSE env

\* `result = await ...`: result is a local of the coroutine; call i goes
\* on with the envelope its own await returned.
LocalResult(i, env) == env

\* The coroutine up to its first await.
Started(st) ==
    [st EXCEPT !.calls = <<Call(PrimaryAdapter(st.request),
                                MethodOf(st.request.op))>>,
               !.pc = "PrimaryCalled"]

\* The coroutine from the return of its awaited call to its next await or
\* its end.
Resumed(i, st, o) ==
    LET call == st.calls[Len(st.calls)]
        GoOn(res) ==
            IF /\ EscalationDue(st.request, call.provider, Len(st.calls), res)
               /\ Len(st.calls) < MaxCalls
            THEN [st EXCEPT !.outcomes = Append(@, o),
                            !.envelopes = Append(@, res),
                            !.result = res,
                            !.calls = Append(@, Call(GPT4_VISION, "analyze_image")),
                            !.pc = "Escalating"]
            ELSE [st EXCEPT !.outcomes = Append(@, o),
                            !.envelopes = Append(@, res),
                            !.result = res,
                            !.response = Finish(st.request, res),
                            !.pc = "Done"]
        Returns(r) ==
            IF r.exc # "none"
            THEN [st EXCEPT !.outcomes = Append(@, o),
                            !.response = RaisedExc(r.exc),
                            !.pc = "Done"]
            ELSE With(LocalResult(i, r.val), GoOn)
    IN  With(AdapterCall(call.provider, call.method, st.request.prompt_chars, o),
             Returns)

ConcurrentInit ==
    /\ RequestIdle /\ ParseIdle
    /\ config = Configured
    /\ QuotaIdle /\ ContextIdle /\ FactoryIdle
    /\ reqs \in [1..2 -> {NewCall(r) : r \in ConcurrentRequests}]

\* The event loop runs one coroutine at a time, from await to await.
ConcurrentFrame ==
    UNCHANGED <<requestVars, ptext, presult, config, quotaVars, contextVars,
                factoryVars>>

StartCall(i) ==
    /\ reqs[i].pc = "NotStarted"
    /\ reqs' = [reqs EXCEPT ![i] = Started(reqs[i])]
    /\ ConcurrentFrame

ReturnCall(i) ==
    /\ reqs[i].pc \in {"PrimaryCalled", "Escalating"}
    /\ \E o \in ConcurrentOutcomes(reqs[i].calls[Len(reqs[i].calls)].provider,
                                    reqs[i].calls[Len(reqs[i].calls)].method) :
          reqs' = [reqs EXCEPT ![i] = Resumed(i, reqs[i], o)]
    /\ ConcurrentFrame

ConcurrentNext == \E i \in 1..2 : StartCall(i) \/ ReturnCall(i)

ConcurrentSpec == ConcurrentInit /\ [][ConcurrentNext]_vars

(***************************************************************************)
(* One free-tier user posting to /ai/chat through a month                  *)
(***************************************************************************)

ChatRequests ==
    {r \in Requests : r.op = "chat" /\ r.count = DEFAULT_COUNT}

QuotaInit ==
    /\ pc = "NotStarted"
    /\ request \in ChatRequests
    /\ selected = "None"
    /\ calls = <<>>
    /\ outcomes = <<>>
    /\ envelopes = <<>>
    /\ result = NoEnvelope
    /\ response = Pending
    /\ ParseIdle
    /\ config = Configured
    /\ subscription = FreeSubscription
    /\ posted = 1
    /\ ContextIdle /\ FactoryIdle /\ ConcurrentIdle

\* The endpoint: current_user, chat_assistant and db are resolved, the
\* assistant is there, and chat_assistant.chat is awaited. Neither the
\* endpoint nor a dependency reads or writes the Subscription row.
ChatEndpoint == request.op = "chat" /\ Start

\* The user posts the next message once the answer is there.
PostNext ==
    /\ pc = "Done"
    /\ posted < MaxPosted
    /\ posted' = posted + 1
    /\ request' \in ChatRequests
    /\ pc' = "NotStarted"
    /\ selected' = "None"
    /\ calls' = <<>>
    /\ outcomes' = <<>>
    /\ envelopes' = <<>>
    /\ result' = NoEnvelope
    /\ response' = Pending
    /\ UNCHANGED <<ptext, presult, config, subscription, contextVars,
                   factoryVars, reqs>>

QuotaNext == ChatEndpoint \/ PrimaryReturn \/ PostNext

QuotaSpec == QuotaInit /\ [][QuotaNext]_vars

(***************************************************************************)
(* Properties                                                              *)
(***************************************************************************)

IsMeal == request.op = "analyze_meal"
Returned_ == response.kind = "returned"
LowConfidence(env) == env.confidence < CONFIDENCE_THRESHOLD
GPT4Call == Call(GPT4_VISION, "analyze_image")

\* C1 as claimed: in analyze_meal, whenever the primary call returns an
\* envelope with confidence < 0.7 and the tier is premium, exactly one more
\* analyze_image call is issued, to GPT-4, and its envelope is the one
\* ai_metadata reports; whenever the primary envelope has confidence >= 0.7
\* there is no second call. (Stated for a primary call that succeeded;
\* what follows a failed primary call is C2's subject.)
C1_EscalatesEveryLowPrimary ==
    (IsMeal /\ pc = "Done" /\ Len(envelopes) >= 1) =>
        /\ ( /\ envelopes[1].error = "None"
             /\ LowConfidence(envelopes[1])
             /\ request.user_tier = "premium" ) =>
              /\ Len(calls) = 2
              /\ calls[2] = GPT4Call
              /\ Returned_ =>
                    response.body.ai_metadata = FullMetadata(envelopes[2])
        /\ ~LowConfidence(envelopes[1]) => Len(calls) = 1

\* C1 amended: whenever the primary call went to Gemini Flash and returned
\* an envelope with confidence < 0.7 and the tier is premium, exactly one
\* more analyze_image call is issued, to GPT-4, and its envelope is the one
\* analyze_meal goes on with and reports in ai_metadata; whenever the
\* primary envelope has confidence >= 0.7, and whenever the primary call
\* went to GPT-4, there is no second call.
C1_EscalatesLowGeminiPrimary ==
    (IsMeal /\ pc = "Done" /\ Len(envelopes) >= 1) =>
        /\ ( /\ calls[1].provider = GEMINI_FLASH
             /\ LowConfidence(envelopes[1])
             /\ request.user_tier = "premium" ) =>
              /\ Len(calls) = 2
              /\ calls[2] = GPT4Call
              /\ Len(envelopes) = 2
              /\ result = envelopes[2]
              /\ Returned_ =>
                    response.body.ai_metadata = FullMetadata(envelopes[2])
        /\ ~LowConfidence(envelopes[1]) => Len(calls) = 1
        /\ calls[1].provider = GPT4_VISION => Len(calls) = 1

\* A premium request forced to Gemini got a low-confidence answer, was
\* upgraded, and reports GPT-4's confident envelope.
C1_Witness ==
    /\ IsMeal /\ pc = "Done" /\ Returned_
    /\ Len(envelopes) = 2
    /\ envelopes[1].provider = GEMINI_FLASH
    /\ envelopes[1].error = "None" /\ LowConfidence(envelopes[1])
    /\ ~LowConfidence(envelopes[2])
    /\ response.body.ai_metadata.provider = GPT4_VISION

\* C2: if the primary call of analyze_meal fails (its envelope has error
\* set), no second provider call is made, for every tier and every forced
\* provider, and the error envelope is returned as it is: ai_metadata
\* reports its provider, its error, confidence 0 and cost 0.
C2_NoEscalationAfterError ==
    (IsMeal /\ Len(envelopes) >= 1 /\ envelopes[1].error # "None") =>
        /\ Len(calls) = 1
        /\ pc = "Done" =>
              /\ Returned_
              /\ response.body.ai_metadata = FullMetadata(envelopes[1])
              /\ response.body.ai_metadata.confidence = 0
              /\ response.body.ai_metadata.cost_usd = 0

\* C3: a forced provider is used with no further logic: for every
\* AIProvider value and every tier, every provider call of the request goes
\* to the forced provider and ai_metadata.provider is the forced provider.
C3_ForcedProviderUsed ==
    (IsMeal /\ request.force_provider # "None") =>
        /\ \A i \in 1..Len(calls) : calls[i].provider = request.force_provider
        /\ (pc = "Done" /\ Returned_) =>
              response.body.ai_metadata.provider = request.force_provider

\* C4: an analyze_meal request issues at most two provider calls, at most
\* one of them an escalation, and once the escalation call has returned the
\* request is over: its result is not escalated or retried, whatever its
\* confidence or error.
C4_AtMostOneEscalation ==
    IsMeal =>
        /\ Len(calls) <= 2
        /\ \A i \in 2..Len(calls) : i = 2 /\ calls[i] = GPT4Call
        /\ Len(outcomes) = 2 => (pc = "Done" /\ Len(calls) = 2)

\* An escalation came back with low confidence and the request ended there.
C4_Witness ==
    /\ IsMeal /\ pc = "Done"
    /\ Len(calls) = 2 /\ Len(envelopes) = 2
    /\ envelopes[2].error = "None"
    /\ LowConfidence(envelopes[2])

\* The steps of the request state machine.
C5_Step ==
    \/ pc = "NotStarted" /\ pc' = "PrimaryCalled"
    \/ pc = "PrimaryCalled" /\ pc' \in {"Done", "Escalating"}
    \/ pc = "Escalating" /\ pc' = "Done"

\* At most one call is out at a time, and the escalation call is out only
\* after the primary call has come back.
C5_Ordered ==
    /\ Len(outcomes') <= Len(calls')
    /\ Len(calls') <= Len(outcomes') + 1
    /\ pc' = "PrimaryCalled" => (Len(calls') = 1 /\ Len(outcomes') = 0)
    /\ pc' = "Escalating" => (Len(calls') = 2 /\ Len(outcomes') = 1)
    /\ pc' = "Done" => Len(outcomes') = Len(calls')
    /\ SubSeq(calls', 1, Len(calls)) = calls
    /\ SubSeq(outcomes', 1, Len(outcomes)) = outcomes

C6_FreeTierFallsBack ==
    ( /\ IsMeal /\ pc = "Done" /\ request.user_tier = "free"
      /\ Len(envelopes) >= 1
      /\ envelopes[1].provider = GEMINI_FLASH
      /\ envelopes[1].error = "None"
      /\ LowConfidence(envelopes[1]) ) =>
        /\ Len(calls) = 2
        /\ calls[2] = GPT4Call
        /\ Returned_ =>
              /\ response.body.ai_metadata.provider = GPT4_VISION
              /\ response.body.ai_metadata.confidence = envelopes[2].confidence

C8_AdaptersNeverRaise ==
    /\ Len(envelopes) = Len(outcomes)
    /\ \A i \in 1..Len(envelopes) :
          /\ envelopes[i].provider = calls[i].provider
          /\ IF outcomes[i].fail # NoFailure
             THEN /\ envelopes[i].error = outcomes[i].error
                  /\ envelopes[i].error # "None"
                  /\ envelopes[i].confidence = 0
                  /\ envelopes[i].cost_usd = 0
             ELSE /\ envelopes[i].error = "None"
                  /\ envelopes[i].content = outcomes[i].text

\* The image download of a Gemini analyze_image call failed and the call
\* returned an error envelope.
C8_Witness ==
    /\ Len(envelopes) >= 1
    /\ calls[1] = Call(GEMINI_FLASH, "analyze_image")
    /\ outcomes[1].fail = "prepare_image"
    /\ envelopes[1].error # "None"
    /\ envelopes[1].confidence = 0

\* C9: _parse_nutrition never throws: for any text it returns a
\* NutritionData whose calories, protein_g, carbs_g and fat_g are numbers,
\* and for a text with nothing to extract (the empty text) all four are 0
\* and the notes explain.
C9_ParserNeverThrows ==
    presult.kind # "pending" =>
        /\ presult.kind = "returned"
        /\ presult.body.calories \in Nat
        /\ presult.body.protein_g \in Nat
        /\ presult.body.carbs_g \in Nat
        /\ presult.body.fat_g \in Nat
        /\ ptext = <<>> =>
              /\ presult.body.calories = 0 /\ presult.body.protein_g = 0
              /\ presult.body.carbs_g = 0 /\ presult.body.fat_g = 0
              /\ presult.body.notes = FallbackNote

\* The capability services C10 names.
C10_Services ==
    {"analyze_meal", "quick_calorie_estimate", "generate_recipe",
     "generate_from_photo", "chat", "suggest_meal", "analyze_diet_trends"}

\* C10: no capability-service call lets an adapter-level or parser-level
\* problem escape as an exception: for every provider outcome the call
\* returns a response object.
C10_ServicesNeverRaise ==
    (request.op \in C10_Services /\ pc = "Done") => response.kind = "returned"

\* The capability-service calls C11 names and the keys it asks for.
C11_Services ==
    {"analyze_meal", "generate_recipe", "generate_from_photo", "chat",
     "suggest_meal", "analyze_diet_trends"}
C11_MetadataKeys ==
    {"provider", "model", "confidence", "cost_usd", "response_time_ms",
     "tokens_used"}

\* C11: every call of analyze_meal, generate_recipe, generate_from_photo,
\* chat, suggest_meal and analyze_diet_trends that returns, returns an
\* ai_metadata block with provider, model, confidence, cost_usd,
\* response_time_ms and tokens_used.
C11_FullMetadataOnEveryCall ==
    (request.op \in C11_Services /\ pc = "Done" /\ Returned_) =>
        /\ "ai_metadata" \in DOMAIN response.body
        /\ C11_MetadataKeys \subseteq DOMAIN response.body.ai_metadata

\* C12: every envelope an adapter call returned, on success or failure,
\* has cost_usd >= 0, tokens_used >= 0 and confidence within [0, 1]
\* (confidence is counted in hundredths).
C12_EnvelopeRanges ==
    \A i \in 1..Len(envelopes) :
        /\ envelopes[i].cost_usd >= 0
        /\ envelopes[i].tokens_used >= 0
        /\ envelopes[i].confidence >= 0
        /\ envelopes[i].confidence <= 100

\* A successful Gemini envelope with a cost, followed by a failed GPT-4
\* call.
C12_Witness ==
    /\ Len(envelopes) = 2
    /\ envelopes[1].error = "None" /\ envelopes[1].cost_usd > 0
    /\ envelopes[1].tokens_used > 0 /\ LowConfidence(envelopes[1])
    /\ envelopes[2].error # "None" /\ envelopes[2].provider = GPT4_VISION

\* C13 as stated: for the same response text the Gemini adapter and the
\* OpenAI adapter report the same confidence, in each of analyze_image,
\* generate_text and chat.
C13_SameConfidence ==
    pc = "Done" => envelopes[2].confidence = envelopes[1].confidence

\* C13 amended: both adapters start from the shared assess_confidence of
\* the text, and the OpenAI adapter reports 0.05 more than the Gemini
\* adapter (capped at 1.0 in analyze_image), in each of analyze_image,
\* generate_text and chat.
C13_OpenAIAddsBonus ==
    pc = "Done" =>
        /\ envelopes[1].provider = GEMINI_FLASH
        /\ envelopes[2].provider = GPT4_VISION
        /\ envelopes[1].content = envelopes[2].content
        /\ envelopes[1].confidence = assess_confidence(ptext)
        /\ envelopes[2].confidence =
              Min(100, envelopes[1].confidence + GPT4_CONFIDENCE_BONUS)

\* Both chat methods met the same hedged text.
C13_Witness ==
    /\ pc = "Done" /\ request.op = "chat"
    /\ calls = <<Call(GEMINI_FLASH, "chat"), Call(GPT4_VISION, "chat")>>
    /\ envelopes[1].confidence = 60 /\ envelopes[2].confidence = 65

\* C14: for the text "This meal has about 450 calories and 30g protein,
\* not much else detected." the parser falls back to regex extraction and
\* returns calories 450, protein_g 30 and confidence 0.6.
C14_ProseMacrosExtracted ==
    (ptext = ProseSentence /\ presult.kind # "pending") =>
        /\ presult.kind = "returned"
        /\ presult.body.calories = 450
        /\ presult.body.protein_g = 30
        /\ presult.body.confidence = FALLBACK_CONFIDENCE

\* float() where it succeeds, 0.0 where the value is not numeric.
C15_Coerced(v) == IF FloatOf(v).exc = "none" THEN FloatOf(v).val ELSE 0

\* C15: when the text contains a parseable JSON object (with an object, or
\* nothing, as its nutrition member), _parse_nutrition returns a record
\* built on the JSON path, in which each of calories, protein_g, carbs_g
\* and fat_g is the member's number, or 0.0 where the member is absent or
\* not numeric; a missing optional field never raises.
C15_JsonPathCoerces ==
    LET loaded == LoadJson(ptext) IN
    (/\ presult.kind # "pending"
     /\ loaded.ok
     /\ loaded.v.t = "obj"
     /\ Get(loaded.v, "nutrition", JObj(<<>>)).t = "obj") =>
        LET raw == Get(loaded.v, "nutrition", JObj(<<>>)) IN
        /\ presult.kind = "returned"
        /\ presult.body.confidence = PARSED_CONFIDENCE
        /\ \A k \in {"calories", "protein_g", "carbs_g", "fat_g"} :
              presult.body[k] = C15_Coerced(Get(raw, k, JNum(0)))

\* C16: when the recipe text cannot be parsed (no JSON, or a field missing
\* or of the wrong type), generate_recipe and generate_from_photo still
\* return: the recipe has zero macros and its nutrition carries a
\* confidence below that of a parsed recipe.
C16_RecipeFallbackSignalsDegraded ==
    (/\ request.op \in {"generate_recipe", "generate_from_photo"}
     /\ pc = "Done"
     /\ ParseRecipeTry(result.content).exc # "none") =>
        /\ Returned_
        /\ response.body.recipe.nutrition.calories = 0
        /\ response.body.recipe.nutrition.protein_g = 0
        /\ response.body.recipe.nutrition.carbs_g = 0
        /\ response.body.recipe.nutrition.fat_g = 0
        /\ response.body.recipe.nutrition.confidence < PARSED_CONFIDENCE

C18_QuickEstimateShape ==
    (request.op = "quick_calorie_estimate" /\ pc = "Done") =>
        /\ Returned_
        /\ DOMAIN response.body =
              {"calories", "description", "cost_usd", "response_time_ms"}
        /\ result.content = json_dumps(QuickDoc) =>
              /\ response.body.calories = JNum(410)
              /\ response.body.description = JStr("turkey sandwich")
              /\ response.body.cost_usd = result.cost_usd
              /\ response.body.response_time_ms = result.response_time_ms

\* C19: quick_calorie_estimate issues exactly one provider call, to
\* Gemini, whatever the confidence or error of the envelope; GPT-4 is
\* never called.
C19_QuickEstimateOneGeminiCall ==
    (request.op = "quick_calorie_estimate" /\ pc # "NotStarted") =>
        /\ calls = <<Call(GEMINI_FLASH, "analyze_image")>>
        /\ \A i \in 1..Len(envelopes) : envelopes[i].provider = GEMINI_FLASH
        /\ pc = "Done" => Len(envelopes) = 1

\* The quick estimate ended on a failed Gemini call.
C19_Witness ==
    /\ request.op = "quick_calorie_estimate" /\ pc = "Done"
    /\ Len(envelopes) = 1 /\ envelopes[1].error # "None"
    /\ LowConfidence(envelopes[1])

\* C20: generate_from_photo issues its single provider call to GPT-4, for
\* every preference and every tier of the caller; Gemini is never called.
C20_PhotoRecipeOnGPT4 ==
    (request.op = "generate_from_photo" /\ pc # "NotStarted") =>
        /\ calls = <<Call(GPT4_VISION, "analyze_image")>>
        /\ \A i \in 1..Len(envelopes) : envelopes[i].provider = GPT4_VISION
        /\ pc = "Done" => Len(envelopes) = 1

\* A free-tier caller with a preference the code does not know got a
\* recipe from GPT-4.
C20_Witness ==
    /\ request.op = "generate_from_photo" /\ pc = "Done" /\ Returned_
    /\ request.user_tier = "free" /\ request.preference = "spicier"
    /\ Len(envelopes) = 1 /\ envelopes[1].provider = GPT4_VISION
    /\ envelopes[1].error = "None"

\* C23: assess_confidence starts from 0.8, subtracts 0.1 for each
\* uncertainty phrase that occurs in the response, adds 0.05 when the
\* response is longer than 200 characters, and the result lies in [0, 1]
\* however many of the phrases occur (confidence in hundredths; the Gemini
\* adapter reports the assessment as it is).
C23_ConfidenceHeuristic ==
    pc = "Done" =>
        /\ envelopes[1].confidence \in 0..100
        /\ \A h \in 0..Len(HedgeList), b \in Bodies,
              d \in {<<>>, <<Prose(201)>>} :
              ptext = Hedges(h) \o b \o d =>
                 envelopes[1].confidence =
                    BASE_CONFIDENCE - PHRASE_PENALTY * h
                    + (IF CharLen(ptext) > DETAIL_LENGTH
                       THEN DETAIL_BONUS ELSE 0)
        /\ ptext = Hedges(1) \o Hedges(1) =>
              envelopes[1].confidence = BASE_CONFIDENCE - PHRASE_PENALTY

\* A long response with every phrase of the list.
C23_Witness ==
    /\ pc = "Done"
    /\ \E b \in Bodies :
          ptext = Hedges(Len(HedgeList)) \o b \o <<Prose(201)>>
    /\ envelopes[1].confidence = 15

\* The ops C26 names.
C26_TextServices ==
    {"generate_recipe", "suggest_recipes", "chat", "suggest_meal",
     "get_nutrition_advice", "analyze_diet_trends"}

\* C26: generate_recipe, suggest_recipes, chat, suggest_meal,
\* get_nutrition_advice and analyze_diet_trends issue exactly one provider
\* call, to GPT-4 if and only if use_gpt4 is true and to Gemini otherwise,
\* and never a second one, whatever the envelope says.
C26_TextOpsCallOnce ==
    (request.op \in C26_TextServices /\ pc # "NotStarted") =>
        /\ Len(calls) = 1
        /\ calls[1].provider =
              IF request.use_gpt4 THEN GPT4_VISION ELSE GEMINI_FLASH
        /\ calls[1].method = MethodOf(request.op)
        /\ pc \in {"PrimaryCalled", "Done"}
        /\ pc = "Done" => Len(envelopes) = 1

\* get_nutrition_advice ended after one failed Gemini call.
C26_Witness ==
    /\ request.op = "get_nutrition_advice" /\ ~request.use_gpt4
    /\ pc = "Done" /\ Len(envelopes) = 1
    /\ envelopes[1].provider = GEMINI_FLASH
    /\ envelopes[1].error # "None" /\ LowConfidence(envelopes[1])

C28_EscalationReportsSecondOnly ==
    (IsMeal /\ pc = "Done" /\ Returned_ /\ Len(envelopes) = 2) =>
        /\ DOMAIN response.body = {"nutrition", "ai_metadata"}
        /\ response.body.ai_metadata =
              [provider |-> GPT4_VISION,
               model |-> envelopes[2].model,
               confidence |-> envelopes[2].confidence,
               cost_usd |-> envelopes[2].cost_usd,
               response_time_ms |-> envelopes[2].response_time_ms,
               tokens_used |-> envelopes[2].tokens_used,
               error |-> envelopes[2].error]
        /\ response.body.nutrition = _parse_nutrition(envelopes[2].content).val

\* Both calls succeeded and cost something; the result has the second's
\* cost.
C28_Witness ==
    /\ IsMeal /\ pc = "Done" /\ Returned_ /\ Len(envelopes) = 2
    /\ envelopes[1].error = "None" /\ envelopes[1].cost_usd > 0
    /\ envelopes[2].error = "None"
    /\ envelopes[2].cost_usd > envelopes[1].cost_usd
    /\ response.body.ai_metadata.cost_usd = envelopes[2].cost_usd

C21_EveryCallGetsItsEnvelope ==
    (Len(calls) > Len(envelopes)) ~> (Len(calls) = Len(envelopes))

\* What C24 expects of the request past the limit.
C24_LimitExceeded ==
    [kind |-> "http_error", exc |-> "429",
     body |-> [detail |-> "limit exceeded"]]

\* C24: for a free-tier user the first 50 POST /ai/chat requests of a
\* month are answered with 200 and the 51st is rejected with 429 "limit
\* exceeded".
C24_FreeTierLimit ==
    pc = "Done" =>
        IF posted <= FREE_AI_LIMIT
        THEN Returned_
        ELSE response = C24_LimitExceeded

\* The labels of the fields of S, in the order of ContextFields.
RECURSIVE C25_Labels(_, _)
C25_Labels(S, i) ==
    IF i > Len(ContextFields) THEN <<>>
    ELSE (IF ContextFields[i] \in S
          THEN <<ContextLabel(ContextFields[i])>> ELSE <<>>)
         \o C25_Labels(S, i + 1)

\* The first word of each line of the block.
C25_LineLabels == [i \in 1..Len(block.text) |-> block.text[i][1].s]

\* C25 as stated: _format_user_context never fails; the block has one
\* line for each field the context supplies, in the fixed order, and none
\* for a missing field; an absent or empty context gives a placeholder.
C25_OneLinePerSuppliedField ==
    block # NoBlock =>
        /\ block.kind = "returned"
        /\ IF context.is_none \/ DOMAIN context.d = {}
           THEN block.text = <<NO_USER_CONTEXT>>
           ELSE C25_LineLabels = C25_Labels(DOMAIN context.d, 1)

\* C25 amended: _format_user_context never fails; the block has one line
\* for each field that is supplied with a non-empty value (not [], 0, None
\* or ""), in the fixed order, and none for a missing or empty field; an
\* absent or empty context gives "No user context available", a context
\* with no non-empty field "No detailed context available".
C25_OneLinePerNonEmptyField ==
    block # NoBlock =>
        LET S == {k \in DOMAIN context.d : Truthy(context.d[k])} IN
        /\ block.kind = "returned"
        /\ IF context.is_none \/ DOMAIN context.d = {}
           THEN block.text = <<NO_USER_CONTEXT>>
           ELSE IF S = {} THEN block.text = <<NO_DETAILED_CONTEXT>>
           ELSE /\ C25_LineLabels = C25_Labels(S, 1)
                /\ \A i \in 1..Len(block.text) : Len(block.text[i]) >= 2

\* The context the chat endpoint passes: goals, no restrictions, no meals.
C25_Witness ==
    /\ block.kind = "returned"
    /\ DOMAIN context.d = {"health_goals", "dietary_restrictions", "recent_meals"}
    /\ context.d.dietary_restrictions = JList(<<>>)
    /\ context.d.recent_meals = JNum(0)
    /\ block.text = << <<W("**Health Goals:**"), W("lose weight"), COMMA,
                         W("more protein")>> >>

\* C30: get_ai_factory creates at most one AIServiceFactory per process,
\* and two calls of the same accessor return the same service instance,
\* also when the accessors run at the same time on several threads.
C30_SingletonFactory ==
    /\ heap.factories <= 1
    /\ \A t \in Threads, u \in Threads :
          (/\ threads[t].pc = "done" /\ threads[u].pc = "done"
           /\ threads[t].accessor = threads[u].accessor) =>
             /\ threads[t].factory = threads[u].factory
             /\ threads[t].service = threads[u].service

\* What call st holds follows from its own arguments and its own provider
\* outcomes: each envelope is the adapter's answer to the outcome of the
\* call it belongs to, `result` is the last of them, the second call is
\* there exactly when the first envelope asks for it, and the response is
\* built from the last envelope.
C22_OwnInputsOnly(st) ==
    /\ Len(st.envelopes) <= Len(st.calls)
    /\ Len(st.calls) >= 1 =>
          st.calls[1] = Call(PrimaryAdapter(st.request), MethodOf(st.request.op))
    /\ \A k \in 1..Len(st.envelopes) :
          st.envelopes[k] =
             AdapterCall(st.calls[k].provider, st.calls[k].method,
                         st.request.prompt_chars, st.outcomes[k]).val
    /\ st.result = IF st.envelopes = <<>> THEN NoEnvelope
                   ELSE st.envelopes[Len(st.envelopes)]
    /\ Len(st.calls) = 2 <=>
          /\ st.envelopes # <<>>
          /\ EscalationDue(st.request, st.calls[1].provider, 1, st.envelopes[1])
    /\ st.pc = "Done" =>
          /\ Len(st.envelopes) = Len(st.calls)
          /\ st.response = Finish(st.request, st.envelopes[Len(st.envelopes)])

\* C22: concurrent requests share no mutable state: the configuration the
\* services hold is never written, and under every interleaving each
\* request's envelopes and result depend only on its own arguments and
\* its own provider outcomes.
C22_RequestsAreIsolated ==
    /\ config = Configured
    /\ \A i \in 1..Len(reqs) : C22_OwnInputsOnly(reqs[i])

\* A chat was answered while an analysis waits for its second call, and
\* the analysis still holds its own low-confidence Gemini envelope.
C22_Witness ==
    /\ Len(reqs) = 2
    /\ reqs[1].request.op = "analyze_meal" /\ reqs[1].pc = "Escalating"
    /\ reqs[1].result.provider = GEMINI_FLASH
    /\ reqs[2].request.op = "chat" /\ reqs[2].pc = "Done"
    /\ reqs[2].result.provider = GPT4_VISION
    /\ reqs[2].result.error = "None"

====
